---------------------------- MODULE Spec2Model ----------------------------
(***************************************************************************)
(* A model of the leftwm-layouts tiling engine: the integer division       *)
(* helpers, the rectangle splitters, the flip and rotate transforms, the   *)
(* column composers and the layout applier.  Every operation is a pure     *)
(* function of its arguments; the state machine below plays the role of a  *)
(* caller that picks arguments, calls an operation and keeps the result.   *)
(***************************************************************************)
EXTENDS Integers, Sequences, FiniteSets, TLC

VARIABLES
    pc,            \* what the caller did last
    a, b,          \* arguments of remainderless_division
    vec,           \* the Vec<usize> returned by remainderless_division
    container,     \* the Rect handed to split / flip / apply
    window_count,  \* the `amount` / `window_count` argument
    axis,          \* the SplitAxis argument of split
    rects,         \* the array of Rects (returned, then mutated in place)
    initial,       \* the array as it was before the first in-place call
    rotation,      \* the Rotation argument of rotate
    flipped,       \* the Flipped argument of flip
    calls,         \* number of in-place calls made on `rects`
    layout,        \* the Layout definition handed to apply
    modifiers      \* the LayoutModifiers handed to Layout::apply

vars == <<pc, a, b, vec, container, window_count, axis, rects, initial,
          rotation, flipped, calls, layout, modifiers>>

-----------------------------------------------------------------------------
(* Helpers over integers and sequences *)

Max2(m, n) == IF m >= n THEN m ELSE n

Min2(m, n) == IF m <= n THEN m ELSE n

RECURSIVE SumSeq(_)
SumSeq(s) == IF s = <<>> THEN 0 ELSE Head(s) + SumSeq(Tail(s))

\* the concatenation of a sequence of sequences (Iterator::flat_map)
RECURSIVE Flatten(_)
Flatten(ss) == IF ss = <<>> THEN <<>> ELSE Head(ss) \o Flatten(Tail(ss))

-----------------------------------------------------------------------------
(* geometry/rect.rs *)

Rect(x, y, w, h) == [x |-> x, y |-> y, w |-> w, h |-> h]


surface_area(r) == r.w * r.h

contains(r, px, py) ==
    /\ r.x <= px
    /\ px <= r.x + r.w
    /\ r.y <= py
    /\ py <= r.y + r.h

-----------------------------------------------------------------------------
(* geometry/calc.rs: divrem and remainderless_division *)

divrem(n, d) == <<n \div d, n % d>>

RECURSIVE remainderless_loop(_, _, _, _)
remainderless_loop(n, div, rem, acc) ==
    IF n = 0 THEN acc
    ELSE IF rem > 0
         THEN remainderless_loop(n - 1, div, rem - 1, Append(acc, div + 1))
         ELSE remainderless_loop(n - 1, div, rem, Append(acc, div))

\* a faulty variant: the remainder counter is never consumed
RECURSIVE remainderless_loop_keep(_, _, _, _)
remainderless_loop_keep(n, div, rem, acc) ==
    IF n = 0 THEN acc
    ELSE IF rem > 0
         THEN remainderless_loop_keep(n - 1, div, rem, Append(acc, div + 1))
         ELSE remainderless_loop_keep(n - 1, div, rem, Append(acc, div))

remainderless_division_keep(n, d) ==
    remainderless_loop_keep(d, divrem(n, d)[1], divrem(n, d)[2], <<>>)

remainderless_division(n, d) ==
    remainderless_loop(d, divrem(n, d)[1], divrem(n, d)[2], <<>>)

-----------------------------------------------------------------------------
(* f32 arithmetic, as used by rotate.                                      *)
(* A value v is held as the integer v * 2^27.  Every f32 that rotate       *)
(* produces for rectangles of at most 15 pixels is such an integer: the    *)
(* smallest quotient is 1/15 > 2^-4, whose unit in the last place is 2^-27.*)
(* Each operation computes the exact result and rounds it to 24            *)
(* significant bits, ties to even, as IEEE 754 single precision does.      *)

f32_scale == 2^27

\* unit in the last place of the non-negative value m
f32_ulp(m) ==
    IF m < 2^24 THEN 1
    ELSE IF m < 2^25 THEN 2
    ELSE IF m < 2^26 THEN 4
    ELSE IF m < 2^27 THEN 8
    ELSE IF m < 2^28 THEN 16
    ELSE IF m < 2^29 THEN 32
    ELSE IF m < 2^30 THEN 64
    ELSE 128

\* the multiple of g nearest to num / den, ties to the even multiple
round_ties_even(num, den, g) ==
    LET d == den * g
        k == num \div d
        r == num % d
    IN  IF 2 * r < d THEN k * g
        ELSE IF 2 * r > d THEN (k + 1) * g
        ELSE IF k % 2 = 0 THEN k * g
        ELSE (k + 1) * g

f32_round(v) ==
    IF v >= 0 THEN round_ties_even(v, 1, f32_ulp(v))
    ELSE 0 - round_ties_even(0 - v, 1, f32_ulp(0 - v))

\* n as f32 / d as f32, for integers 0 <= n and 0 < d
f32_div(n, d) ==
    round_ties_even(n * f32_scale, d, f32_ulp((n * f32_scale) \div d))

f32_add(v, u) == f32_round(v + u)

f32_sub(v, u) == f32_round(v - u)

\* v * (n as f32), for an integer n
f32_mul(v, n) == f32_round(v * n)

\* the `as i32` / `as u32` cast: truncation toward zero
f32_as_int(v) ==
    IF v >= 0 THEN v \div f32_scale ELSE 0 - ((0 - v) \div f32_scale)

-----------------------------------------------------------------------------
(* geometry/rotation.rs *)

Rotations == {"North", "East", "South", "West"}

clockwise(r) ==
    CASE r = "North" -> "East"
      [] r = "East" -> "South"
      [] r = "South" -> "West"
      [] r = "West" -> "North"

\* the corner of the (float) rect that is its anchor after the rotation
next_anchor(r, fr) ==
    CASE r = "North" -> <<fr.x, fr.y>>
      [] r = "East" -> <<fr.x, f32_add(fr.y, fr.h)>>
      [] r = "South" -> <<f32_add(fr.x, fr.w), f32_add(fr.y, fr.h)>>
      [] r = "West" -> <<f32_add(fr.x, fr.w), fr.y>>

-----------------------------------------------------------------------------
(* geometry/calc.rs and geometry/split.rs: split *)

SplitAxes == {"Vertical", "Horizontal", "Grid", "Fibonacci", "Dwindle", "None"}

\* (amount as f64).sqrt().ceil()
ceil_sqrt(n) == CHOOSE c \in 0..n : c * c >= n /\ (c = 0 \/ (c - 1) * (c - 1) < n)

\* a faulty variant: from_left is never advanced
vertical_stuck(rect, amount) ==
    LET widths == remainderless_division(rect.w, amount)
    IN  [i \in 1..amount |-> Rect(rect.x, rect.y, widths[i], rect.h)]

vertical(rect, amount) ==
    LET widths == remainderless_division(rect.w, amount)
        from_left(i) == rect.x + SumSeq(SubSeq(widths, 1, i - 1))
    IN  [i \in 1..amount |-> Rect(from_left(i), rect.y, widths[i], rect.h)]

horizontal(rect, amount) ==
    LET heights == remainderless_division(rect.h, amount)
        from_top(i) == rect.y + SumSeq(SubSeq(heights, 1, i - 1))
    IN  [i \in 1..amount |-> Rect(rect.x, from_top(i), rect.w, heights[i])]

grid(rect, amount) ==
    LET cols == ceil_sqrt(amount)
        col_tiles == vertical(rect, cols)
        min_rows == amount \div cols
        min_row_amount == Len(col_tiles) - divrem(amount, cols)[2]
        rows(i) == IF i - 1 < min_row_amount THEN min_rows ELSE min_rows + 1
    IN  Flatten([i \in 1..Len(col_tiles) |-> horizontal(col_tiles[i], rows(i))])

RECURSIVE split(_, _, _)

\* iteration i (from 0) of the loop of the Fibonacci split; `direction` is
\* the direction of the previous iteration
RECURSIVE fibonacci_loop(_, _, _, _, _)
fibonacci_loop(i, amount, remaining_tile, direction, tiles) ==
    IF i >= amount THEN tiles
    ELSE LET dir == clockwise(direction)
             split_axis == IF dir \in {"North", "South"}
                           THEN "Horizontal" ELSE "Vertical"
             backwards == dir \in {"West", "North"}
             splitted_tiles == split(remaining_tile, 2, split_axis)
         IN  IF i < amount - 1
             THEN IF backwards
                  THEN fibonacci_loop(i + 1, amount, splitted_tiles[1], dir,
                                      Append(tiles, splitted_tiles[2]))
                  ELSE fibonacci_loop(i + 1, amount, splitted_tiles[2], dir,
                                      Append(tiles, splitted_tiles[1]))
             ELSE fibonacci_loop(i + 1, amount, remaining_tile, dir,
                                 Append(tiles, remaining_tile))

fibonacci(rect, amount) == fibonacci_loop(0, amount, rect, "East", <<>>)

RECURSIVE dwindle_loop(_, _, _, _, _)
dwindle_loop(i, amount, remaining_tile, last_axis, tiles) ==
    IF i >= amount THEN tiles
    ELSE LET ax == IF last_axis = "Vertical" THEN "Horizontal" ELSE "Vertical"
             splitted_tiles == split(remaining_tile, 2, ax)
         IN  IF i < amount - 1
             THEN dwindle_loop(i + 1, amount, splitted_tiles[2], ax,
                               Append(tiles, splitted_tiles[1]))
             ELSE dwindle_loop(i + 1, amount, remaining_tile, ax,
                               Append(tiles, remaining_tile))

\* a faulty variant: the first cut is vertical
dwindle_vertical_first(rect, amount) ==
    dwindle_loop(0, amount, rect, "Horizontal", <<>>)

dwindle(rect, amount) == dwindle_loop(0, amount, rect, "Vertical", <<>>)

\* a faulty variant: an absent strategy yields one copy per window
split_copies(rect, amount, ax) ==
    IF amount = 0 THEN <<>>
    ELSE CASE ax = "Vertical" -> vertical(rect, amount)
           [] ax = "Horizontal" -> horizontal(rect, amount)
           [] ax = "Grid" -> grid(rect, amount)
           [] ax = "Fibonacci" -> fibonacci(rect, amount)
           [] ax = "Dwindle" -> dwindle(rect, amount)
           [] ax = "None" -> [i \in 1..amount |-> rect]

split(rect, amount, ax) ==
    IF amount = 0 THEN <<>>
    ELSE CASE ax = "Vertical" -> vertical(rect, amount)
           [] ax = "Horizontal" -> horizontal(rect, amount)
           [] ax = "Grid" -> grid(rect, amount)
           [] ax = "Fibonacci" -> fibonacci(rect, amount)
           [] ax = "Dwindle" -> dwindle(rect, amount)
           [] ax = "None" -> <<rect>>

-----------------------------------------------------------------------------
(* geometry/calc.rs: flip *)

Flips == {"None", "Horizontal", "Vertical", "Both"}

is_flipped_horizontal(f) == f \in {"Horizontal", "Both"}

is_flipped_vertical(f) == f \in {"Vertical", "Both"}

\* a faulty variant: the rect is put against the far edge, wherever it was
flip_rect_to_edge(c, r, f) ==
    LET x2 == IF is_flipped_horizontal(f)
              THEN (c.x + c.w) - r.w ELSE r.x
        y2 == IF is_flipped_vertical(f)
              THEN (c.y + c.h) - r.h ELSE r.y
    IN  Rect(x2, y2, r.w, r.h)

\* the body of the loop of flip, for one rect
flip_rect(c, r, f) ==
    LET x2 == IF is_flipped_horizontal(f)
              THEN (c.x + c.w) - (r.x + r.w) ELSE r.x
        y2 == IF is_flipped_vertical(f)
              THEN (c.y + c.h) - (r.y + r.h) ELSE r.y
    IN  Rect(x2, y2, r.w, r.h)

flip(c, rs, f) == [i \in 1..Len(rs) |-> flip_rect(c, rs[i], f)]

-----------------------------------------------------------------------------
(* geometry/calc.rs: rotate *)

min_x(rs) ==
    IF rs = <<>> THEN 0
    ELSE CHOOSE m \in {rs[i].x : i \in 1..Len(rs)} :
             \A i \in 1..Len(rs) : m <= rs[i].x

min_y(rs) ==
    IF rs = <<>> THEN 0
    ELSE CHOOSE m \in {rs[i].y : i \in 1..Len(rs)} :
             \A i \in 1..Len(rs) : m <= rs[i].y

max_x(rs) ==
    IF rs = <<>> THEN 0
    ELSE CHOOSE m \in {rs[i].x + rs[i].w : i \in 1..Len(rs)} :
             \A i \in 1..Len(rs) : m >= rs[i].x + rs[i].w

max_y(rs) ==
    IF rs = <<>> THEN 0
    ELSE CHOOSE m \in {rs[i].y + rs[i].h : i \in 1..Len(rs)} :
             \A i \in 1..Len(rs) : m >= rs[i].y + rs[i].h

outer_rect(rs) ==
    Rect(min_x(rs), min_y(rs), max_x(rs) - min_x(rs), max_y(rs) - min_y(rs))

\* the outer Rect becomes the unit square at (0/0)
normalize(r, outer) ==
    IF outer.w # 0 /\ outer.h # 0
    THEN [x |-> f32_div(r.x - outer.x, outer.w),
          y |-> f32_div(r.y - outer.y, outer.h),
          w |-> f32_div(r.w, outer.w),
          h |-> f32_div(r.h, outer.h)]
    ELSE [x |-> 0, y |-> 0, w |-> 0, h |-> 0]

rotate_float(r, fr) ==
    LET anchor == next_anchor(r, fr)
    IN  CASE r = "North" -> fr
          [] r = "East" ->
               [x |-> f32_sub(f32_scale, anchor[2]), y |-> anchor[1],
                w |-> fr.h, h |-> fr.w]
          [] r = "South" ->
               [x |-> f32_sub(f32_scale, anchor[1]),
                y |-> f32_sub(f32_scale, anchor[2]),
                w |-> fr.w, h |-> fr.h]
          [] r = "West" ->
               [x |-> anchor[2], y |-> f32_sub(f32_scale, anchor[1]),
                w |-> fr.h, h |-> fr.w]

denormalize(fr, outer) ==
    Rect(f32_as_int(f32_mul(fr.x, outer.w)) + outer.x,
         f32_as_int(f32_mul(fr.y, outer.h)) + outer.y,
         f32_as_int(f32_mul(fr.w, outer.w)),
         f32_as_int(f32_mul(fr.h, outer.h)))

\* does some other rect start one pixel beyond the right edge of rs[i]?
not_wide_enough(rs, i, outer) ==
    \/ \E k \in 1..Len(rs) :
          /\ rs[k] # rs[i]
          /\ ~contains(rs[k], rs[i].x + rs[i].w, rs[i].y + 1)
          /\ contains(rs[k], rs[i].x + rs[i].w + 1, rs[i].y + 1)
    \/ rs[i].x + rs[i].w + 1 = outer.x + outer.w

\* the probe below the bottom edge is taken at y + w + 1, as in the source
not_high_enough(rs, i, outer) ==
    \/ \E k \in 1..Len(rs) :
          /\ rs[k] # rs[i]
          /\ ~contains(rs[k], rs[i].x + 1, rs[i].y + rs[i].h)
          /\ contains(rs[k], rs[i].x + 1, rs[i].y + rs[i].w + 1)
    \/ rs[i].y + rs[i].h + 1 = outer.y + outer.h

fill_one(rs, i, outer) ==
    LET r == rs[i]
        w2 == IF not_wide_enough(rs, i, outer)
                 /\ contains(outer, r.x + r.w + 1, r.y)
              THEN r.w + 1 ELSE r.w
        h2 == IF not_high_enough(rs, i, outer)
                 /\ contains(outer, r.x, r.y + r.h + 1)
              THEN r.h + 1 ELSE r.h
    IN  [rs EXCEPT ![i] = Rect(r.x, r.y, w2, h2)]

RECURSIVE fill_missing_pixels(_, _, _)
fill_missing_pixels(rs, i, outer) ==
    IF i > Len(rs) THEN rs
    ELSE fill_missing_pixels(fill_one(rs, i, outer), i + 1, outer)

rotate(rs, r) ==
    LET outer == outer_rect(rs)
        new_rects == [i \in 1..Len(rs) |->
                        denormalize(rotate_float(r, normalize(rs[i], outer)),
                                    outer)]
    IN  fill_missing_pixels(new_rects, 1, outer)

-----------------------------------------------------------------------------
(* f32 arithmetic of the column composers.                                 *)
(* Here an f32 is the pair <<m, e>> that stands for m * 2^e, with          *)
(* 2^23 <= m < 2^24 (or m = 0): the 24 significant bits and the exponent   *)
(* of IEEE 754 single precision.  Results are rounded ties to even.        *)

\* after a rounding that may have carried into a 25th bit
f32_normal(m, e) == IF m = 2^24 THEN <<2^23, e + 1>> ELSE <<m, e>>

\* long division: the next k bits of r / d appended to the bits m
RECURSIVE f32_quot_bits(_, _, _, _)
f32_quot_bits(r, d, m, k) ==
    IF k = 0 THEN <<m, r>>
    ELSE IF 2 * r >= d
         THEN f32_quot_bits(2 * r - d, d, 2 * m + 1, k - 1)
         ELSE f32_quot_bits(2 * r, d, 2 * m, k - 1)

\* n as f32 / d as f32 for integers 0 <= n < 2^8 and 0 < d < 2^8, which
\* are exact as f32
f32_quot(n, d) ==
    IF n = 0 THEN <<0, 0>>
    ELSE LET k == CHOOSE j \in (0 - 8)..8 :
                      IF j >= 0
                      THEN d * 2^j <= n /\ n < d * 2^(j + 1)
                      ELSE d <= n * 2^(0 - j) /\ n * 2^(0 - j) < 2 * d
             n2 == IF k >= 0 THEN n ELSE n * 2^(0 - k)
             d2 == IF k >= 0 THEN d * 2^k ELSE d
             q == f32_quot_bits(n2 - d2, d2, 1, 23)
             up == \/ 2 * q[2] > d2
                   \/ (2 * q[2] = d2 /\ q[1] % 2 = 1)
         IN  f32_normal(IF up THEN q[1] + 1 ELSE q[1], k - 23)

\* v * (n as f32) for an f32 v >= 0 and an integer 0 <= n < 2^7
f32_times(v, n) ==
    IF v[1] = 0 \/ n = 0 THEN <<0, 0>>
    ELSE LET prod == v[1] * n
             sh == CHOOSE j \in 0..7 : (j = 7 \/ prod < 2^(24 + j))
                                         /\ (j = 0 \/ prod >= 2^(23 + j))
             k == prod \div 2^sh
             r == prod % 2^sh
             up == \/ 2 * r > 2^sh
                   \/ (2 * r = 2^sh /\ k % 2 = 1)
         IN  IF prod < 2^23 THEN <<prod, v[2]>>
             ELSE f32_normal(IF up THEN k + 1 ELSE k, v[2] + sh)

\* v as u32 / v as usize for an f32 v >= 0: the fraction is dropped
f32_trunc(v) ==
    IF v[2] >= 0 THEN v[1] * 2^v[2]
    ELSE IF 0 - v[2] > 30 THEN 0
    ELSE v[1] \div 2^(0 - v[2])

\* f32::round for an f32 v >= 0: to the nearest integer, halves upwards
f32_round_half_up(v) ==
    IF v[2] >= 0 THEN v[1] * 2^v[2]
    ELSE IF 0 - v[2] > 30 THEN 0
    ELSE LET unit == 2^(0 - v[2])
         IN  IF 2 * (v[1] % unit) >= unit
             THEN (v[1] \div unit) + 1 ELSE v[1] \div unit


\* the f32 1.0
f32_one == <<2^23, 0 - 23>>

\* v < u for two f32 v, u >= 0
f32_less(v, u) ==
    IF u[1] = 0 THEN FALSE
    ELSE IF v[1] = 0 THEN TRUE
    ELSE v[2] < u[2] \/ (v[2] = u[2] /\ v[1] < u[1])

\* the significand m with three more bits, moved d binary places to the
\* right; the bits that fall off are kept as one lowest bit
f32_shifted(m, d) ==
    IF d >= 27 THEN 1
    ELSE LET q == (m * 8) \div 2^d
             r == (m * 8) % 2^d
         IN  IF r # 0 /\ q % 2 = 0 THEN q + 1 ELSE q

\* the f32 nearest to s * 2^e for an integer 0 <= s < 2^29
f32_pack(s, e) ==
    IF s = 0 THEN <<0, 0>>
    ELSE IF s < 2^23
         THEN LET k == CHOOSE j \in 1..23 : s * 2^j >= 2^23
              IN  <<s * 2^k, e - k>>
         ELSE LET sh == CHOOSE j \in 0..6 : s \div 2^j < 2^24
                  k == s \div 2^sh
                  r == s % 2^sh
                  up == \/ 2 * r > 2^sh
                        \/ (2 * r = 2^sh /\ k % 2 = 1)
              IN  f32_normal(IF up THEN k + 1 ELSE k, e + sh)

\* v + u for two f32 v, u >= 0
f32_plus(v, u) ==
    IF v[1] = 0 THEN u
    ELSE IF u[1] = 0 THEN v
    ELSE IF f32_less(v, u)
         THEN f32_pack(u[1] * 8 + f32_shifted(v[1], u[2] - v[2]), u[2] - 3)
         ELSE f32_pack(v[1] * 8 + f32_shifted(u[1], v[2] - u[2]), v[2] - 3)

\* v - u for two f32 v >= u >= 0
f32_minus(v, u) ==
    IF u[1] = 0 THEN v
    ELSE f32_pack(v[1] * 8 - f32_shifted(u[1], v[2] - u[2]), v[2] - 3)

-----------------------------------------------------------------------------
(* lib.rs and layouts/columns: the LayoutEnum layouts and their columns.   *)
(* An Option<Rect> is a sequence: <<>> is None and <<r>> is Some(r).       *)

saturating_sub(m, n) == IF m >= n THEN m - n ELSE 0

ReserveColumnSpaces == {"None", "Reserve", "ReserveAndCenter"}

is_reserved(r) == r \in {"Reserve", "ReserveAndCenter"}

\* (container.w as f32 / 100.0 * main_size_percentage) as u32
percentage_of(w, main_size_percentage) ==
    f32_trunc(f32_times(f32_quot(w, 100), main_size_percentage))

main_stack_columns(n, c, main_window_count, main_size_percentage, reserve) ==
    LET main_count == Min2(main_window_count, n)
        stack_count == saturating_sub(n, main_count)
        main_exists == main_count > 0 \/ is_reserved(reserve)
        stack_exists == stack_count > 0 \/ is_reserved(reserve)
        main_column ==
            IF ~main_exists THEN <<>>
            ELSE IF stack_exists
                 THEN <<Rect(c.x, c.y,
                             percentage_of(c.w, main_size_percentage), c.h)>>
                 ELSE <<c>>
        stack_column ==
            IF ~stack_exists THEN <<>>
            ELSE IF main_column = <<>> THEN <<c>>
            ELSE <<Rect(main_column[1].w, c.y, c.w - main_column[1].w, c.h)>>
    IN  <<main_column, stack_column>>

\* a faulty variant: the stack tiles come before the main tiles
main_stack_stack_first(n, c, mods) ==
    IF n = 0 THEN <<>>
    ELSE LET cols == main_stack_columns(n, c, mods.main_window_count,
                                        mods.main_size_percentage,
                                        mods.reserve_column_space)
             main_tiles ==
                 IF cols[1] # <<>>
                 THEN split(cols[1][1], mods.main_window_count,
                            mods.main_split)
                 ELSE <<>>
             stack_tiles ==
                 IF cols[2] # <<>>
                 THEN split(cols[2][1],
                            saturating_sub(n, mods.main_window_count),
                            mods.first_stack_split)
                 ELSE <<>>
         IN  stack_tiles \o main_tiles

main_stack(n, c, mods) ==
    IF n = 0 THEN <<>>
    ELSE LET cols == main_stack_columns(n, c, mods.main_window_count,
                                        mods.main_size_percentage,
                                        mods.reserve_column_space)
             main_tiles ==
                 IF cols[1] # <<>>
                 THEN split(cols[1][1], mods.main_window_count,
                            mods.main_split)
                 ELSE <<>>
             stack_tiles ==
                 IF cols[2] # <<>>
                 THEN split(cols[2][1],
                            saturating_sub(n, mods.main_window_count),
                            mods.first_stack_split)
                 ELSE <<>>
         IN  main_tiles \o stack_tiles

stack(n, c, mods) == split(c, n, mods.first_stack_split)

\* the variants of LayoutEnum whose Layout implements
\* apply(window_count, container, modifiers)
LayoutEnums == {"MainAndHorizontalStack", "Grid", "EvenHorizontal", "Dwindle"}

\* layout.get().apply(window_count, container, modifiers)
Layout_apply(l, n, c, mods) ==
    CASE l = "MainAndHorizontalStack" ->
           main_stack(n, c, [mods EXCEPT !.first_stack_split = "Vertical"])
      [] l = "Grid" ->
           stack(n, c, [mods EXCEPT !.first_stack_split = "Grid"])
      [] l = "EvenHorizontal" ->
           stack(n, c, [mods EXCEPT !.first_stack_split = "Vertical"])
      [] l = "Dwindle" ->
           main_stack(n, c, [mods EXCEPT !.first_stack_split = "Dwindle"])

\* impl Default for LayoutModifiers
DefaultModifiers ==
    [main_window_count |-> 1,
     main_size_percentage |-> 60,
     main_split |-> "Vertical",
     first_stack_split |-> "Horizontal",
     reserve_column_space |-> "None"]


\* Rotation::aspect_ratio_changes
aspect_ratio_changes(r, rect) == rect.h # rect.w /\ r \in {"West", "East"}

\* geometry::translate_rotation(container, rect, rotation): the rotation of
\* one rect within a container whose aspect ratio the rotation keeps
translate_rotation(c, r, rot) ==
    LET x == r.x - c.x
        y == r.y - c.y
    IN  CASE rot = "North" -> r
          [] rot = "East" ->
               Rect(c.x + (c.h - (y + r.h)), c.y + x, r.h, r.w)
          [] rot = "South" ->
               Rect(c.x + (c.w - (x + r.w)), c.y + (c.h - (y + r.h)),
                    r.w, r.h)
          [] rot = "West" ->
               Rect(c.x + y, c.y + (c.w - (x + r.w)), r.h, r.w)

\* the container in which apply calculates the layout
rotated_container(options) ==
    IF aspect_ratio_changes(options.rotation, options.container_size)
    THEN Rect(options.container_size.x, options.container_size.y,
              options.container_size.h, options.container_size.w)
    ELSE options.container_size

\* the rotation of every rect of apply
rotated_rects(c, rs, rot) ==
    [i \in 1..Len(rs) |-> translate_rotation(c, rs[i], rot)]

\* a variant of the post-processing: flipped first, rotated afterwards
flip_then_rotate(c, rs, options) ==
    rotated_rects(c, flip(options.container_size, rs, options.flipped),
                  options.rotation)

\* the post-processing of apply: rotated first, flipped afterwards
rotate_then_flip(c, rs, options) ==
    flip(options.container_size, rotated_rects(c, rs, options.rotation),
         options.flipped)

\* apply(layout, window_count, options, modifiers) of lib.rs
apply_with_options(l, n, options, mods) ==
    rotate_then_flip(rotated_container(options),
                     Layout_apply(l, n, rotated_container(options), mods),
                     options)

-----------------------------------------------------------------------------
(* geometry/size.rs, geometry/reserve.rs, layouts/columns/two_column.rs    *)
(* and three_column.rs                                                     *)

\* Size::Ratio(x) with x the f32 nearest to n / d
Ratio(n, d) == [kind |-> "Ratio", num |-> n, den |-> d]

Pixel(px) == [kind |-> "Pixel", num |-> px, den |-> 1]

into_absolute(size, whole) ==
    IF size.kind = "Pixel" THEN size.num
    ELSE f32_round_half_up(f32_times(f32_quot(size.num, size.den), whole))

Reserves == {"None", "Reserve", "ReserveAndCenter"}

\* a faulty variant: a single main window does not count as a window
two_column_late_main(n, c, main_window_count, main_size, reserve) ==
    LET main_count == Min2(main_window_count, n)
        stack_count == saturating_sub(n, main_count)
        main_has_windows == main_count > 1
        stack_has_windows == stack_count > 0
        main_reserve == main_has_windows \/ is_reserved(reserve)
        stack_reserve == stack_has_windows \/ is_reserved(reserve)
        main_width == IF main_reserve /\ stack_reserve
                      THEN into_absolute(main_size, c.w)
                      ELSE IF main_reserve THEN c.w ELSE 0
        stack_width == c.w - main_width
    IN  <<IF main_has_windows
          THEN <<Rect(0, c.y, main_width, c.h)>> ELSE <<>>,
          IF stack_has_windows
          THEN <<Rect(main_width, c.y, stack_width, c.h)>> ELSE <<>> >>

\* a faulty variant: a stack that alone is reserved gets no width
two_column_no_lone_stack(n, c, main_window_count, main_size, reserve) ==
    LET main_count == Min2(main_window_count, n)
        stack_count == saturating_sub(n, main_count)
        main_has_windows == main_count > 0
        stack_has_windows == stack_count > 0
        main_reserve == main_has_windows \/ is_reserved(reserve)
        stack_reserve == stack_has_windows \/ is_reserved(reserve)
        main_empty == ~main_has_windows /\ is_reserved(reserve)
        stack_empty == ~stack_has_windows /\ is_reserved(reserve)
        main_width == IF main_reserve /\ stack_reserve
                      THEN into_absolute(main_size, c.w)
                      ELSE IF main_reserve THEN c.w ELSE 0
        stack_width == IF main_reserve /\ stack_reserve
                       THEN c.w - main_width ELSE 0
        main_offset == IF reserve = "ReserveAndCenter" /\ stack_empty
                       THEN stack_width \div 2 ELSE 0
        stack_offset == IF reserve = "ReserveAndCenter" /\ main_empty
                        THEN main_width \div 2 ELSE main_width
    IN  <<IF main_has_windows
          THEN <<Rect(main_offset, c.y, main_width, c.h)>> ELSE <<>>,
          IF stack_has_windows
          THEN <<Rect(stack_offset, c.y, stack_width, c.h)>> ELSE <<>> >>

two_column(n, c, main_window_count, main_size, reserve) ==
    LET main_count == Min2(main_window_count, n)
        stack_count == saturating_sub(n, main_count)
        main_has_windows == main_count > 0
        stack_has_windows == stack_count > 0
        main_reserve == main_has_windows \/ is_reserved(reserve)
        stack_reserve == stack_has_windows \/ is_reserved(reserve)
        main_empty == ~main_has_windows /\ is_reserved(reserve)
        stack_empty == ~stack_has_windows /\ is_reserved(reserve)
        main_width == IF main_reserve /\ stack_reserve
                      THEN into_absolute(main_size, c.w)
                      ELSE IF main_reserve THEN c.w ELSE 0
        stack_width == c.w - main_width
        main_offset == IF reserve = "ReserveAndCenter" /\ stack_empty
                       THEN stack_width \div 2 ELSE 0
        stack_offset == IF reserve = "ReserveAndCenter" /\ main_empty
                        THEN main_width \div 2 ELSE main_width
    IN  <<IF main_has_windows
          THEN <<Rect(main_offset, c.y, main_width, c.h)>> ELSE <<>>,
          IF stack_has_windows
          THEN <<Rect(stack_offset, c.y, stack_width, c.h)>> ELSE <<>> >>

\* the windows of the left and of the right stack
stack_window_counts(stack_count, balance_stacks) ==
    IF stack_count = 1 THEN <<1, 0>>
    ELSE IF stack_count >= 2 /\ ~balance_stacks
         THEN <<1, saturating_sub(stack_count, 1)>>
    ELSE IF stack_count >= 2
         THEN <<remainderless_division(stack_count, 2)[1],
                remainderless_division(stack_count, 2)[2]>>
    ELSE <<0, 0>>

\* a faulty variant: the main column is not shifted when only the right
\* stack is empty
three_column_main_unshifted(n, c, main_window_count, main_size, reserve, balance_stacks) ==
    LET main_count == Min2(main_window_count, n)
        stack_count == saturating_sub(n, main_count)
        counts == stack_window_counts(stack_count, balance_stacks)
        main_has_windows == main_count > 0
        left_has_windows == counts[1] > 0
        right_has_windows == counts[2] > 0
        main_reserve == main_has_windows \/ is_reserved(reserve)
        left_reserve == left_has_windows \/ is_reserved(reserve)
        right_reserve == (left_reserve /\ right_has_windows)
                            \/ is_reserved(reserve)
        main_empty == ~main_has_windows /\ is_reserved(reserve)
        left_empty == ~left_has_windows /\ is_reserved(reserve)
        right_empty == left_empty
                          \/ (~right_has_windows /\ is_reserved(reserve))
        main_width == IF main_reserve /\ left_reserve
                      THEN into_absolute(main_size, c.w)
                      ELSE IF main_reserve THEN c.w ELSE 0
        stack_width == c.w - main_width
        left_width == IF left_reserve /\ ~right_reserve THEN stack_width
                      ELSE IF left_reserve THEN stack_width \div 2 ELSE 0
        right_width == IF right_reserve THEN stack_width - left_width ELSE 0
        center == reserve = "ReserveAndCenter"
        main_offset ==
            IF center /\ ~left_empty /\ right_empty
            THEN left_width
            ELSE IF center /\ left_empty THEN stack_width \div 2
            ELSE left_width
        left_offset ==
            IF center /\ ~main_empty /\ right_empty THEN right_width \div 2
            ELSE IF center /\ main_empty /\ ~right_empty
                 THEN main_width \div 2
            ELSE IF center /\ main_empty /\ right_empty
                 THEN (main_width + right_width) \div 2
            ELSE 0
        right_offset ==
            IF center /\ main_empty THEN (main_width \div 2) + left_width
            ELSE left_width + main_width
    IN  <<IF left_has_windows
          THEN <<Rect(left_offset, c.y, left_width, c.h)>> ELSE <<>>,
          IF main_has_windows
          THEN <<Rect(main_offset, c.y, main_width, c.h)>> ELSE <<>>,
          IF right_has_windows
          THEN <<Rect(right_offset, c.y, right_width, c.h)>> ELSE <<>> >>

\* a faulty variant: a reserved right stack gets a rectangle
three_column_reserved_right(n, c, main_window_count, main_size, reserve, balance_stacks) ==
    LET main_count == Min2(main_window_count, n)
        stack_count == saturating_sub(n, main_count)
        counts == stack_window_counts(stack_count, balance_stacks)
        main_has_windows == main_count > 0
        left_has_windows == counts[1] > 0
        right_has_windows == counts[2] > 0
        main_reserve == main_has_windows \/ is_reserved(reserve)
        left_reserve == left_has_windows \/ is_reserved(reserve)
        right_reserve == (left_reserve /\ right_has_windows)
                            \/ is_reserved(reserve)
        main_empty == ~main_has_windows /\ is_reserved(reserve)
        left_empty == ~left_has_windows /\ is_reserved(reserve)
        right_empty == left_empty
                          \/ (~right_has_windows /\ is_reserved(reserve))
        main_width == IF main_reserve /\ left_reserve
                      THEN into_absolute(main_size, c.w)
                      ELSE IF main_reserve THEN c.w ELSE 0
        stack_width == c.w - main_width
        left_width == IF left_reserve /\ ~right_reserve THEN stack_width
                      ELSE IF left_reserve THEN stack_width \div 2 ELSE 0
        right_width == IF right_reserve THEN stack_width - left_width ELSE 0
        center == reserve = "ReserveAndCenter"
        main_offset ==
            IF center /\ ~left_empty /\ right_empty
            THEN left_width + (right_width \div 2)
            ELSE IF center /\ left_empty THEN stack_width \div 2
            ELSE left_width
        left_offset ==
            IF center /\ ~main_empty /\ right_empty THEN right_width \div 2
            ELSE IF center /\ main_empty /\ ~right_empty
                 THEN main_width \div 2
            ELSE IF center /\ main_empty /\ right_empty
                 THEN (main_width + right_width) \div 2
            ELSE 0
        right_offset ==
            IF center /\ main_empty THEN (main_width \div 2) + left_width
            ELSE left_width + main_width
    IN  <<IF left_has_windows
          THEN <<Rect(left_offset, c.y, left_width, c.h)>> ELSE <<>>,
          IF main_has_windows
          THEN <<Rect(main_offset, c.y, main_width, c.h)>> ELSE <<>>,
          IF right_reserve
          THEN <<Rect(right_offset, c.y, right_width, c.h)>> ELSE <<>> >>

three_column(n, c, main_window_count, main_size, reserve, balance_stacks) ==
    LET main_count == Min2(main_window_count, n)
        stack_count == saturating_sub(n, main_count)
        counts == stack_window_counts(stack_count, balance_stacks)
        main_has_windows == main_count > 0
        left_has_windows == counts[1] > 0
        right_has_windows == counts[2] > 0
        main_reserve == main_has_windows \/ is_reserved(reserve)
        left_reserve == left_has_windows \/ is_reserved(reserve)
        right_reserve == (left_reserve /\ right_has_windows)
                            \/ is_reserved(reserve)
        main_empty == ~main_has_windows /\ is_reserved(reserve)
        left_empty == ~left_has_windows /\ is_reserved(reserve)
        right_empty == left_empty
                          \/ (~right_has_windows /\ is_reserved(reserve))
        main_width == IF main_reserve /\ left_reserve
                      THEN into_absolute(main_size, c.w)
                      ELSE IF main_reserve THEN c.w ELSE 0
        stack_width == c.w - main_width
        left_width == IF left_reserve /\ ~right_reserve THEN stack_width
                      ELSE IF left_reserve THEN stack_width \div 2 ELSE 0
        right_width == IF right_reserve THEN stack_width - left_width ELSE 0
        center == reserve = "ReserveAndCenter"
        main_offset ==
            IF center /\ ~left_empty /\ right_empty
            THEN left_width + (right_width \div 2)
            ELSE IF center /\ left_empty THEN stack_width \div 2
            ELSE left_width
        left_offset ==
            IF center /\ ~main_empty /\ right_empty THEN right_width \div 2
            ELSE IF center /\ main_empty /\ ~right_empty
                 THEN main_width \div 2
            ELSE IF center /\ main_empty /\ right_empty
                 THEN (main_width + right_width) \div 2
            ELSE 0
        right_offset ==
            IF center /\ main_empty THEN (main_width \div 2) + left_width
            ELSE left_width + main_width
    IN  <<IF left_has_windows
          THEN <<Rect(left_offset, c.y, left_width, c.h)>> ELSE <<>>,
          IF main_has_windows
          THEN <<Rect(main_offset, c.y, main_width, c.h)>> ELSE <<>>,
          IF right_has_windows
          THEN <<Rect(right_offset, c.y, right_width, c.h)>> ELSE <<>> >>

-----------------------------------------------------------------------------
(* layouts/layout.rs and layouts/defaults.rs: the layout definitions.      *)
(* An Option is <<>> or <<value>>; an absent split is "None".              *)

DefaultMain ==
    [count |-> 1, size |-> Ratio(1, 2), flip |-> "None", rotate |-> "North",
     split |-> "Vertical"]

DefaultStack == [flip |-> "None", rotate |-> "North", split |-> "Horizontal"]

DefaultSecondStack ==
    [flip |-> "None", rotate |-> "North", split |-> "Horizontal"]

DefaultColumns ==
    [flip |-> "None", rotate |-> "North", main |-> <<DefaultMain>>,
     stack |-> DefaultStack, second_stack |-> <<>>]

DefaultLayout ==
    [name |-> "Default", flip |-> "None", rotate |-> "North",
     reserve |-> "None", columns |-> DefaultColumns]

\* a layout with the given name, columns and reserve, the rest by default
BuiltIn(name, columns, reserve) ==
    [DefaultLayout EXCEPT !.name = name, !.columns = columns,
                          !.reserve = reserve]

StackSplit(sp) == [DefaultStack EXCEPT !.split = sp]

even_horizontal ==
    BuiltIn("EvenHorizontal",
            [DefaultColumns EXCEPT !.main = <<>>,
                                   !.stack = StackSplit("Vertical")],
            "None")

even_vertical ==
    BuiltIn("EvenVertical", [DefaultColumns EXCEPT !.main = <<>>], "None")

monocle ==
    BuiltIn("Monocle",
            [DefaultColumns EXCEPT !.main = <<>>,
                                   !.stack = StackSplit("None")],
            "None")

grid_layout ==
    BuiltIn("Grid",
            [DefaultColumns EXCEPT !.main = <<>>,
                                   !.stack = StackSplit("Grid")],
            "None")

main_and_vert_stack == BuiltIn("MainAndVertStack", DefaultColumns, "None")

main_and_horizontal_stack ==
    BuiltIn("MainAndHorizontalStack",
            [DefaultColumns EXCEPT !.stack = StackSplit("Vertical")], "None")

\* a faulty variant: without the rotation of the columns
right_main_and_vert_stack_unrotated ==
    BuiltIn("RightMainAndVertStack", DefaultColumns, "None")

right_main_and_vert_stack ==
    BuiltIn("RightMainAndVertStack",
            [DefaultColumns EXCEPT !.rotate = "South"], "None")

fibonacci_layout ==
    BuiltIn("Fibonacci",
            [DefaultColumns EXCEPT !.stack = StackSplit("Fibonacci")], "None")

dwindle_layout ==
    BuiltIn("Dwindle",
            [DefaultColumns EXCEPT !.stack = StackSplit("Dwindle")], "None")

main_and_deck ==
    BuiltIn("MainAndDeck",
            [DefaultColumns EXCEPT
                !.main = <<[DefaultMain EXCEPT !.split = "None"]>>,
                !.stack = StackSplit("None")],
            "None")

center_main ==
    BuiltIn("CenterMain",
            [DefaultColumns EXCEPT !.stack = StackSplit("None"),
                                   !.second_stack = <<DefaultSecondStack>>],
            "None")

center_main_balanced ==
    BuiltIn("CenterMainBalanced",
            [DefaultColumns EXCEPT
                !.stack = StackSplit("Dwindle"),
                !.second_stack =
                    <<[DefaultSecondStack EXCEPT !.split = "Dwindle"]>>],
            "None")

center_main_fluid ==
    BuiltIn("CenterMainFluid",
            [DefaultColumns EXCEPT !.stack = StackSplit("None"),
                                   !.second_stack = <<DefaultSecondStack>>],
            "Reserve")

\* Layouts::default()
Layouts ==
    {even_horizontal, even_vertical, monocle, grid_layout,
     main_and_vert_stack, main_and_horizontal_stack,
     right_main_and_vert_stack, fibonacci_layout, dwindle_layout,
     main_and_deck, center_main, center_main_balanced, center_main_fluid}

is_monocle(l) ==
    /\ l.columns.main = <<>>
    /\ l.columns.second_stack = <<>>
    /\ l.columns.stack.split = "None"

is_main_and_deck(l) ==
    IF l.columns.main = <<>> THEN FALSE
    ELSE /\ l.columns.second_stack = <<>>
         /\ l.columns.main[1].split = "None"
         /\ l.columns.stack.split = "None"

increase_main_window_count(l) ==
    IF l.columns.main = <<>> THEN l
    ELSE [l EXCEPT !.columns.main[1].count = @ + 1]

decrease_main_window_count(l) ==
    IF l.columns.main = <<>> THEN l
    ELSE [l EXCEPT !.columns.main[1].count = saturating_sub(@, 1)]


DEFAULT_MAIN_SIZE_CHANGE_PIXEL == 50

DEFAULT_MAIN_SIZE_CHANGE_PERCENTAGE == 5

\* i32::MAX
I32Max == 2147483647

\* x + y leaves the i32 range (x, y are i32)
i32_add_overflows(x, y) ==
    \/ y > 0 /\ x > I32Max - y
    \/ y < 0 /\ x < (0 - I32Max - 1) - y

\* x + y on i32 in a build without overflow checks: modulo 2^32
i32_wrapping_add(x, y) ==
    IF y > 0 /\ x > I32Max - y
    THEN (x - I32Max - 1) + (y - I32Max - 1)
    ELSE IF y < 0 /\ x < (0 - I32Max - 1) - y
         THEN (x + I32Max + 1) + (y + I32Max + 1)
         ELSE x + y

\* Size::Ratio(x) with x the f32 v[1] * 2^v[2]
RatioF32(v) == [kind |-> "RatioF32", num |-> v[1], den |-> v[2]]

\* the f32 of a Size::Ratio
ratio_of(size) ==
    IF size.kind = "Ratio" THEN f32_quot(size.num, size.den)
    ELSE <<size.num, size.den>>

\* f32::max(0.0, f32::min(1.0, ratio + (delta as f32 * 0.01))) for a ratio
\* 0 <= v <= 2.  For |delta| < 2^7 the product and the sum are computed;
\* for |delta| >= 2^8 the product is beyond 2.5 in size, so that the sum is
\* above 1.0 or below 0.0 whatever its last bits are.
ratio_changed(v, delta) ==
    IF delta >= 2^8 THEN f32_one
    ELSE IF delta <= 0 - 2^8 THEN <<0, 0>>
    ELSE IF delta >= 0
         THEN IF f32_less(f32_one,
                          f32_plus(v, f32_times(f32_quot(1, 100), delta)))
              THEN f32_one
              ELSE f32_plus(v, f32_times(f32_quot(1, 100), delta))
         ELSE IF f32_less(v, f32_times(f32_quot(1, 100), 0 - delta))
              THEN <<0, 0>>
              ELSE IF f32_less(f32_one,
                               f32_minus(v, f32_times(f32_quot(1, 100),
                                                      0 - delta)))
                   THEN f32_one
                   ELSE f32_minus(v, f32_times(f32_quot(1, 100), 0 - delta))

\* a faulty variant: the main column is created when it is absent
set_main_size_adds_main(l, size) ==
    IF l.columns.main = <<>>
    THEN [l EXCEPT !.columns.main = <<[DefaultMain EXCEPT !.size = size]>>]
    ELSE [l EXCEPT !.columns.main[1].size = size]

set_main_size(l, size) ==
    IF l.columns.main = <<>> THEN l
    ELSE [l EXCEPT !.columns.main[1].size = size]

\* `px + delta` of change_main_size leaves the i32 range
change_main_size_overflows(l, delta) ==
    /\ l.columns.main # <<>>
    /\ l.columns.main[1].size.kind = "Pixel"
    /\ i32_add_overflows(l.columns.main[1].size.num, delta)

\* the layout after a change_main_size that returns
change_main_size(l, delta, upper_bound) ==
    IF l.columns.main = <<>> THEN l
    ELSE [l EXCEPT !.columns.main[1].size =
             IF @.kind = "Pixel"
             THEN Pixel(Max2(0, Min2(upper_bound,
                                     i32_wrapping_add(@.num, delta))))
             ELSE RatioF32(ratio_changed(ratio_of(@), delta))]

\* the delta that increase_main_size passes to change_main_size
increase_delta(l) ==
    IF l.columns.main # <<>> /\ l.columns.main[1].size.kind = "Pixel"
    THEN DEFAULT_MAIN_SIZE_CHANGE_PIXEL
    ELSE DEFAULT_MAIN_SIZE_CHANGE_PERCENTAGE

increase_main_size(l, upper_bound) ==
    change_main_size(l, increase_delta(l), upper_bound)

decrease_main_size(l) == change_main_size(l, 0 - increase_delta(l), I32Max)

\* cmp::max(0, count) of a usize is count
set_main_window_count(l, count) ==
    IF l.columns.main = <<>> THEN l
    ELSE [l EXCEPT !.columns.main[1].count = Max2(0, count)]


\* Layouts::default().layouts
Layouts_default ==
    <<even_horizontal, even_vertical, monocle, grid_layout,
      main_and_vert_stack, main_and_horizontal_stack,
      right_main_and_vert_stack, fibonacci_layout, dwindle_layout,
      main_and_deck, center_main, center_main_balanced, center_main_fluid>>

\* iter().find(..) from the i-th layout on: Some(&Layout) or None
RECURSIVE find_from(_, _, _)
find_from(layouts, name, i) ==
    IF i > Len(layouts) THEN <<>>
    ELSE IF layouts[i].name = name THEN <<layouts[i]>>
    ELSE find_from(layouts, name, i + 1)

\* the same search from the i-th layout backwards
RECURSIVE find_back_from(_, _, _)
find_back_from(layouts, name, i) ==
    IF i < 1 THEN <<>>
    ELSE IF layouts[i].name = name THEN <<layouts[i]>>
    ELSE find_back_from(layouts, name, i - 1)

\* a faulty variant: the last layout of that name
get_last(layouts, name) == find_back_from(layouts, name, Len(layouts))

\* Layouts::get and Layouts::get_mut
get(layouts, name) == find_from(layouts, name, 1)

\* iter().position(..) from the i-th layout on: Some(index from 0) or None
RECURSIVE position_from(_, _, _)
position_from(layouts, name, i) ==
    IF i > Len(layouts) THEN <<>>
    ELSE IF layouts[i].name = name THEN <<i - 1>>
    ELSE position_from(layouts, name, i + 1)

get_index(layouts, name) == position_from(layouts, name, 1)

names(layouts) == [i \in 1..Len(layouts) |-> layouts[i].name]

-----------------------------------------------------------------------------
(* The layout applier: apply(&Layout, window_count, &container).  It       *)
(* composes the column composers, split, rotate and flip above.            *)

\* rotate, then flip within the container
rotate_and_flip(c, rs, r, f) == flip(c, rotate(rs, r), f)

\* the tiles of one column: none when the column has no rectangle
column_tiles(c, column, amount, col) ==
    IF column = <<>> THEN <<>>
    ELSE rotate_and_flip(c, split(column[1], amount, col.split),
                         col.rotate, col.flip)

apply_single_column(l, n, c) == split(c, n, l.columns.stack.split)

\* cols: the composer's columns; moved: the populated ones after the
\* columns-level rotate and flip, in the same order
two_column_tiles(l, n, c, cols, moved) ==
    LET main == l.columns.main[1]
        main_rect == IF cols[1] = <<>> THEN <<>> ELSE <<moved[1]>>
        stack_rect == IF cols[2] = <<>> THEN <<>> ELSE <<moved[Len(moved)]>>
    IN  column_tiles(c, main_rect, Min2(main.count, n), main)
        \o column_tiles(c, stack_rect, saturating_sub(n, main.count),
                        l.columns.stack)

apply_two_column(l, n, c) ==
    LET main == l.columns.main[1]
        cols == two_column(n, c, main.count, main.size, l.reserve)
    IN  two_column_tiles(l, n, c, cols,
            rotate_and_flip(c, cols[1] \o cols[2],
                            l.columns.rotate, l.columns.flip))

three_column_tiles(l, n, c, cols, moved) ==
    LET main == l.columns.main[1]
        left_rect == IF cols[1] = <<>> THEN <<>> ELSE <<moved[1]>>
        main_rect == IF cols[2] = <<>> THEN <<>>
                     ELSE <<moved[Len(cols[1]) + 1]>>
        right_rect == IF cols[3] = <<>> THEN <<>> ELSE <<moved[Len(moved)]>>
        counts == stack_window_counts(
                      saturating_sub(n, Min2(main.count, n)),
                      l.columns.stack.split # "None")
    IN  column_tiles(c, main_rect, Min2(main.count, n), main)
        \o column_tiles(c, left_rect, counts[1], l.columns.stack)
        \o column_tiles(c, right_rect, counts[2], l.columns.second_stack[1])

apply_three_column(l, n, c) ==
    LET main == l.columns.main[1]
        cols == three_column(n, c, main.count, main.size, l.reserve,
                             l.columns.stack.split # "None")
    IN  three_column_tiles(l, n, c, cols,
            rotate_and_flip(c, cols[1] \o cols[2] \o cols[3],
                            l.columns.rotate, l.columns.flip))

apply(l, n, c) ==
    IF n = 0 THEN <<>>
    ELSE LET tiles_of_columns ==
                 IF l.columns.main = <<>> THEN apply_single_column(l, n, c)
                 ELSE IF l.columns.second_stack = <<>>
                      THEN apply_two_column(l, n, c)
                 ELSE apply_three_column(l, n, c)
         IN  rotate(flip(c, tiles_of_columns, l.flip), l.rotate)

-----------------------------------------------------------------------------
(* layouts/columns/stack_main_stack.rs                                     *)

\* (left_window_count, right_window_cound); `stack_window_count - 1`
\* overflows for 0 stack windows: what a build without overflow checks
\* gets, usize::MAX, is written as its two's complement reading -1
stack_main_stack_counts(n, main_window_count, balance_stacks) ==
    LET stack_window_count == saturating_sub(n, Min2(main_window_count, n))
    IN  IF balance_stacks
        THEN <<remainderless_division(stack_window_count, 2)[1],
               remainderless_division(stack_window_count, 2)[2]>>
        ELSE <<1, stack_window_count - 1>>

stack_main_stack_overflows(n, main_window_count, balance_stacks) ==
    /\ n > 0
    /\ ~balance_stacks
    /\ saturating_sub(n, Min2(main_window_count, n)) = 0

stack_main_stack_columns(n, c, main_window_count, main_size_percentage, reserve_empty_space) ==
    LET main_count == Min2(main_window_count, n)
        stack_count == saturating_sub(n, main_count)
        main_exists == main_count > 0 \/ reserve_empty_space
        left_stack_exists == stack_count > 0 \/ reserve_empty_space
        right_stack_exists == (left_stack_exists /\ stack_count > 1)
                                 \/ reserve_empty_space
        main_width == percentage_of(c.w, main_size_percentage)
        main_column ==
            IF ~main_exists THEN <<>>
            ELSE IF ~left_stack_exists THEN <<c>>
            ELSE IF ~right_stack_exists
                 THEN <<Rect(c.w - main_width, c.y, main_width, c.h)>>
            ELSE <<Rect(remainderless_division(c.w - main_width, 2)[1],
                        c.y, main_width, c.h)>>
        rest_width == c.w - (IF main_column = <<>> THEN 0
                             ELSE main_column[1].w)
        stack_widths == remainderless_division(rest_width, 2)
        left_column ==
            IF ~left_stack_exists THEN <<>>
            ELSE IF ~right_stack_exists
                 THEN <<Rect(c.x, c.y, rest_width, c.h)>>
            ELSE <<Rect(c.x, c.y, stack_widths[1], c.h)>>
        right_column ==
            IF left_stack_exists /\ right_stack_exists
            THEN <<Rect(c.w - stack_widths[2], c.y, stack_widths[2], c.h)>>
            ELSE <<>>
    IN  <<left_column, main_column, right_column>>

\* the tiles of one column, none without a column
stack_main_stack_tiles(column, amount, ax) ==
    IF column = <<>> THEN <<>> ELSE split(column[1], amount, ax)

\* the Vec<Rect> returned; the right stack is split into counts[2] tiles
stack_main_stack_of(n, mods, cols, counts) ==
    stack_main_stack_tiles(cols[2], Min2(mods.main_window_count, n),
                           mods.main_split)
    \o stack_main_stack_tiles(cols[1], counts[1], mods.first_stack_split)
    \o stack_main_stack_tiles(cols[3], counts[2], mods.second_stack_split)

stack_main_stack(n, c, mods) ==
    IF n = 0 THEN <<>>
    ELSE stack_main_stack_of(
             n, mods,
             stack_main_stack_columns(n, c, mods.main_window_count,
                                      mods.main_size_percentage,
                                      mods.reserve_empty_space),
             stack_main_stack_counts(n, mods.main_window_count,
                                     mods.balance_stacks))

-----------------------------------------------------------------------------
(* geometry/direction.rs: the neighbor search.  Indices count from 1; an   *)
(* Option is <<>> or <<value>>.                                            *)

Directions == {"North", "East", "South", "West"}

top_edge(r) == r.y

right_edge(r) == r.x + r.w

bottom_edge(r) == r.y + r.h

left_edge(r) == r.x

\* the state of a search: min_x, min_y and nearest_rect, all None
nothing_found == [min_x |-> <<>>, min_y |-> <<>>, nearest_rect |-> <<>>]

\* min_x and min_y after the two `is_none` tests
first_seen(found, x_distance, y_distance, index) ==
    [min_x |-> IF found.min_x = <<>> THEN <<x_distance>> ELSE found.min_x,
     min_y |-> IF found.min_y = <<>> THEN <<y_distance>> ELSE found.min_y,
     nearest_rect |-> IF found.min_x = <<>> \/ found.min_y = <<>>
                      THEN <<index>> ELSE found.nearest_rect]

\* the comparisons of find_nearest_rect, on a state with min_x and min_y
nearer(seen, x_distance, y_distance, index, updown) ==
    IF updown
    THEN IF y_distance < seen.min_y[1]
         THEN [seen EXCEPT !.min_y = <<y_distance>>,
                           !.nearest_rect = <<index>>]
         ELSE IF y_distance = seen.min_y[1] /\ x_distance < seen.min_x[1]
              THEN [seen EXCEPT !.min_x = <<x_distance>>,
                                !.nearest_rect = <<index>>]
              ELSE seen
    ELSE IF x_distance < seen.min_x[1]
         THEN [seen EXCEPT !.min_x = <<x_distance>>,
                           !.nearest_rect = <<index>>]
         ELSE IF x_distance = seen.min_x[1] /\ y_distance < seen.min_y[1]
              THEN [seen EXCEPT !.min_y = <<y_distance>>,
                                !.nearest_rect = <<index>>]
              ELSE seen

find_nearest_rect(found, x_distance, y_distance, index, updown) ==
    nearer(first_seen(found, x_distance, y_distance, index),
           x_distance, y_distance, index, updown)

\* the `continue` test of each loop: r is skipped
skipped(r, cur, d) ==
    \/ r = cur
    \/ d \in {"North", "South"} /\ right_edge(r) - 1 < left_edge(cur)
    \/ d \in {"North", "South", "West"} /\ left_edge(r) + 1 > right_edge(cur)
    \/ d \in {"North", "East", "West"} /\ top_edge(r) + 1 > bottom_edge(cur)
    \/ d = "East" /\ right_edge(r) - 1 < right_edge(cur)
    \/ d \in {"East", "South", "West"}
          /\ bottom_edge(r) - 1 < top_edge(cur)

x_distance_to(r, cur, d) ==
    IF d = "East" THEN left_edge(r) - right_edge(cur)
    ELSE left_edge(cur) - right_edge(r)

y_distance_to(r, cur, d) ==
    IF d = "North" THEN top_edge(cur) - bottom_edge(r)
    ELSE top_edge(r) - bottom_edge(cur)

\* the loop over rects from index i on
RECURSIVE find_loop(_, _, _, _, _)
find_loop(rs, current, d, i, found) ==
    IF i > Len(rs) THEN found.nearest_rect
    ELSE IF skipped(rs[i], rs[current], d)
         THEN find_loop(rs, current, d, i + 1, found)
    ELSE find_loop(rs, current, d, i + 1,
                   find_nearest_rect(found,
                                     x_distance_to(rs[i], rs[current], d),
                                     y_distance_to(rs[i], rs[current], d),
                                     i, d \in {"North", "South"}))

\* the early return of each search: current is at the display's edge
at_the_edge(cur, d, c) ==
    \/ d = "North" /\ top_edge(cur) <= 0
    \/ d = "East" /\ right_edge(cur) >= c.w
    \/ d = "South" /\ cur.y + cur.h >= c.h
    \/ d = "West" /\ left_edge(cur) <= 0

find_neighbor(rs, current, d, c) ==
    IF current > Len(rs) THEN <<>>
    ELSE IF at_the_edge(rs[current], d, c) THEN <<>>
    ELSE find_loop(rs, current, d, 1, nothing_found)

-----------------------------------------------------------------------------
(* Tilings: the vocabulary of the properties below *)

\* r lies inside c
inside(r, c) ==
    /\ c.x <= r.x
    /\ r.x + r.w <= c.x + c.w
    /\ c.y <= r.y
    /\ r.y + r.h <= c.y + c.h

\* p and q have an interior point in common
interiors_meet(p, q) ==
    /\ Max2(p.x, q.x) < Min2(p.x + p.w, q.x + q.w)
    /\ Max2(p.y, q.y) < Min2(p.y + p.h, q.y + q.h)

total_area(rs) == SumSeq([i \in 1..Len(rs) |-> surface_area(rs[i])])

all_inside(rs, c) == \A i \in 1..Len(rs) : inside(rs[i], c)

no_overlap(rs) ==
    \A i \in 1..Len(rs) : \A j \in 1..Len(rs) :
        i # j => ~interiors_meet(rs[i], rs[j])

\* rs covers c exactly: nothing outside, no overlap, no gap
tiles(rs, c) ==
    /\ all_inside(rs, c)
    /\ no_overlap(rs)
    /\ total_area(rs) = surface_area(c)

-----------------------------------------------------------------------------
(* Bounds of the model *)

MaxA == 11
MaxB == 5
MaxW == 6
MaxH == 5
MaxN == 7
MaxFlipW == 3
MaxFlipH == 3
MaxRotW == 6
MaxRotH == 9
MaxRotN == 4
MaxMainCount == 3
MaxLayoutN == 3
MaxLayoutW == 5
MaxLayoutH == 3

\* layout definitions applied: windows, container sides, count changes
MaxApplyN == 4

MaxApplyW == 5

MaxApplyH == 3

MaxCountChanges == 2

\* the column composers called directly: container sides, windows, main count
MaxColW == 6

MaxColH == 1

MaxColN == 4

MaxColMain == 3

\* stack_main_stack: container sides, windows, main count
MaxStacksW == 5

MaxStacksH == 2

MaxStacksN == 4

MaxStacksMain == 2

\* the neighbor search: tiles of one split, container sides
MaxNeighborN == 3

MaxNeighborW == 4

MaxNeighborH == 4

\* the x and y offsets of the containers
OffsetsX == {0 - 2, 0, 3}
OffsetsY == {0, 1}

-----------------------------------------------------------------------------
(* The caller of remainderless_division *)

InitDiv ==
    /\ pc = "start"
    /\ a \in 0..MaxA
    /\ b \in 1..MaxB
    /\ vec = <<>>
    /\ container = Rect(0, 0, 0, 0)
    /\ window_count = 0
    /\ axis = "None"
    /\ rects = <<>>
    /\ initial = <<>>
    /\ rotation = "North"
    /\ flipped = "None"
    /\ calls = 0
    /\ layout = "none"
    /\ modifiers = "none"

CallRemainderlessDivision ==
    /\ pc = "start"
    /\ vec' = remainderless_division(a, b)
    /\ pc' = "divided"
    /\ UNCHANGED <<a, b, container, window_count, axis, rects, initial,
                   rotation, flipped, calls, layout, modifiers>>

NextDiv == CallRemainderlessDivision

SpecDiv == InitDiv /\ [][NextDiv]_vars

\* C6: remainderless_division(a, b) returns exactly b integers that sum to
\* a, each floor(a/b) or floor(a/b)+1, in non-increasing order, exactly
\* a mod b of them being the larger value.
C6_RemainderlessDivision ==
    pc = "divided" =>
        /\ Len(vec) = b
        /\ SumSeq(vec) = a
        /\ \A i \in 1..Len(vec) : vec[i] \in {a \div b, (a \div b) + 1}
        /\ \A i \in 1..(Len(vec) - 1) : vec[i] >= vec[i + 1]
        /\ Cardinality({i \in 1..Len(vec) : vec[i] = (a \div b) + 1}) = a % b

C6_Witness ==
    /\ pc = "divided"
    /\ a = 11
    /\ b = 3
    /\ vec = <<4, 4, 3>>

-----------------------------------------------------------------------------
(* The caller of split *)

InitSplit ==
    /\ pc = "start"
    /\ a = 0
    /\ b = 1
    /\ vec = <<>>
    /\ container \in {Rect(x, y, w, h) :
                        x \in OffsetsX, y \in OffsetsY,
                        w \in 0..MaxW, h \in 0..MaxH}
    /\ window_count \in 0..MaxN
    /\ axis \in SplitAxes
    /\ rects = <<>>
    /\ initial = <<>>
    /\ rotation = "North"
    /\ flipped = "None"
    /\ calls = 0
    /\ layout = "none"
    /\ modifiers = "none"

CallSplit ==
    /\ pc = "start"
    /\ rects' = split(container, window_count, axis)
    /\ pc' = "split"
    /\ UNCHANGED <<a, b, vec, container, window_count, axis, initial,
                   rotation, flipped, calls, layout, modifiers>>

NextSplit == CallSplit

SpecSplit == InitSplit /\ [][NextSplit]_vars

\* C4: for every rectangle R, every n >= 1 and every present strategy, the
\* rectangles of split(R, n, strategy) lie inside R, have pairwise disjoint
\* interiors and areas that sum to the area of R, also when R.w or R.h is
\* smaller than n or not divisible by it.
C4_SplitTiles ==
    (pc = "split" /\ window_count >= 1 /\ axis # "None") =>
        /\ all_inside(rects, container)
        /\ no_overlap(rects)
        /\ total_area(rects) = surface_area(container)

C4_Witness ==
    /\ pc = "split"
    /\ axis = "Fibonacci"
    /\ window_count = 4
    /\ container = Rect(0 - 2, 1, 5, 3)
    /\ rects = <<Rect(0 - 2, 1, 5, 2), Rect(1, 3, 2, 1),
                 Rect(0 - 2, 4, 3, 0), Rect(0 - 2, 3, 3, 1)>>
    /\ tiles(rects, container)

\* C5: split(R, n, strategy) returns exactly n rectangles when the strategy
\* is present and n >= 1, exactly one rectangle equal to R when the strategy
\* is absent and n >= 1, and the empty list when n = 0, whatever the strategy.
C5_SplitLength ==
    pc = "split" =>
        /\ (window_count >= 1 /\ axis # "None") => Len(rects) = window_count
        /\ (window_count >= 1 /\ axis = "None") => rects = <<container>>
        /\ window_count = 0 => rects = <<>>

C5_Witness ==
    /\ pc = "split"
    /\ axis = "None"
    /\ window_count = 2
    /\ container = Rect(3, 1, 6, 5)
    /\ rects = <<Rect(3, 1, 6, 5)>>


\* C28: a Dwindle split of R into n >= 1 rectangles spirals monotonically
\* into the bottom-right: the first cut is horizontal and the axes
\* alternate, the first rectangle starts at R's top-left corner, each later
\* rectangle's x and y are not less than those of the one before it, and
\* the last rectangle ends at R's bottom-right corner.
C28_DwindleSpiral ==
    (pc = "split" /\ axis = "Dwindle" /\ window_count >= 1) =>
        /\ Len(rects) = window_count
        /\ rects[1].x = container.x
        /\ rects[1].y = container.y
        /\ \A i \in 1..(Len(rects) - 1) :
              /\ rects[i + 1].x >= rects[i].x
              /\ rects[i + 1].y >= rects[i].y
              /\ IF i % 2 = 1
                 THEN /\ rects[i + 1].x = rects[i].x
                      /\ rects[i + 1].y = rects[i].y + rects[i].h
                      /\ rects[i].x + rects[i].w = container.x + container.w
                 ELSE /\ rects[i + 1].y = rects[i].y
                      /\ rects[i + 1].x = rects[i].x + rects[i].w
                      /\ rects[i].y + rects[i].h = container.y + container.h
        /\ rects[Len(rects)].x + rects[Len(rects)].w
              = container.x + container.w
        /\ rects[Len(rects)].y + rects[Len(rects)].h
              = container.y + container.h

\* a Dwindle split into five rectangles, the last four of them smaller
C28_Witness ==
    /\ pc = "split"
    /\ axis = "Dwindle"
    /\ window_count = 5
    /\ container = Rect(3, 1, 6, 5)
    /\ rects = <<Rect(3, 1, 6, 3), Rect(3, 4, 3, 2), Rect(6, 4, 3, 1),
                 Rect(6, 5, 2, 1), Rect(8, 5, 1, 1)>>

-----------------------------------------------------------------------------
(* The caller of flip *)

\* the arrays handed to flip: the empty one, every single rect of a small
\* pool (inside the container or not), and the tilings that split makes
FlipInputs(c) ==
    {<<>>}
    \cup {<<Rect(x, y, w, h)>> :
            x \in OffsetsX, y \in OffsetsY,
            w \in 0..MaxFlipW, h \in 0..MaxFlipH}
    \cup {split(c, n, ax) : n \in 2..3, ax \in {"Vertical", "Dwindle"}}

InitFlip ==
    /\ pc = "start"
    /\ a = 0
    /\ b = 1
    /\ vec = <<>>
    /\ container \in {Rect(x, y, w, h) :
                        x \in OffsetsX, y \in OffsetsY,
                        w \in 1..MaxFlipW, h \in 1..MaxFlipH}
    /\ window_count = 0
    /\ axis = "None"
    /\ rects \in FlipInputs(container)
    /\ initial = rects
    /\ rotation = "North"
    /\ flipped \in Flips
    /\ calls = 0
    /\ layout = "none"
    /\ modifiers = "none"

\* flip(container, &mut rects, &flipped)
CallFlip ==
    /\ pc \in {"start", "flipped"}
    /\ calls < 2
    /\ rects' = flip(container, rects, flipped)
    /\ calls' = calls + 1
    /\ pc' = "flipped"
    /\ UNCHANGED <<a, b, vec, container, window_count, axis, initial,
                   rotation, flipped, layout, modifiers>>

NextFlip == CallFlip

SpecFlip == InitFlip /\ [][NextFlip]_vars

\* C10: flip is an involution: for every flip value, every container (at
\* any offset) and every array of rectangles, flipping twice with the same
\* flip value and container gives back the original array.
C10_FlipInvolution ==
    (pc = "flipped" /\ calls = 2) => rects = initial

C10_Witness ==
    /\ pc = "flipped"
    /\ calls = 2
    /\ flipped = "Both"
    /\ container = Rect(3, 1, 3, 2)
    /\ initial = <<Rect(3, 1, 3, 1), Rect(3, 2, 2, 1), Rect(5, 2, 1, 1)>>
    /\ rects = initial
    /\ flip(container, rects, flipped) # rects


\* C11: a Horizontal flip sets r.y to (C.y + C.h) - (r.y + r.h) and leaves
\* r.x, r.w and r.h unchanged; a Vertical flip sets r.x to
\* (C.x + C.w) - (r.x + r.w) and leaves r.y, r.w and r.h unchanged.
C11_FlipAxes ==
    (pc = "flipped" /\ calls = 1) =>
        \A i \in 1..Len(rects) :
            /\ flipped = "Horizontal" =>
                  rects[i] = Rect(initial[i].x,
                                  (container.y + container.h)
                                      - (initial[i].y + initial[i].h),
                                  initial[i].w, initial[i].h)
            /\ flipped = "Vertical" =>
                  rects[i] = Rect((container.x + container.w)
                                      - (initial[i].x + initial[i].w),
                                  initial[i].y,
                                  initial[i].w, initial[i].h)


\* C29: flip keeps every rectangle inside the container: for a container
\* at any offset and every rectangle that lies inside it, the rectangle
\* after a Horizontal, Vertical or Both flip still lies inside the
\* container, with its width and height unchanged.
C29_FlipStaysInside ==
    (pc = "flipped" /\ calls = 1 /\ all_inside(initial, container)) =>
        /\ Len(rects) = Len(initial)
        /\ all_inside(rects, container)
        /\ \A i \in 1..Len(rects) :
              rects[i].w = initial[i].w /\ rects[i].h = initial[i].h

-----------------------------------------------------------------------------
(* The caller of rotate *)

PresentAxes == SplitAxes \ {"None"}

\* the array handed to rotate is a tiling made by split; it is rotated in
\* place, up to four times, always by the same Rotation
InitRotate ==
    /\ pc = "start"
    /\ a = 0
    /\ b = 1
    /\ vec = <<>>
    /\ container \in {Rect(x, y, w, h) :
                        x \in OffsetsX, y \in OffsetsY,
                        w \in 1..MaxRotW, h \in 1..MaxRotH}
    /\ window_count \in 1..MaxRotN
    /\ axis \in PresentAxes
    /\ rects = split(container, window_count, axis)
    /\ initial = rects
    /\ rotation \in Rotations
    /\ flipped = "None"
    /\ calls = 0
    /\ layout = "none"
    /\ modifiers = "none"

\* rotate(&mut rects, &rotation)
CallRotate ==
    /\ pc \in {"start", "rotated"}
    /\ calls < 4
    /\ rects' = rotate(rects, rotation)
    /\ calls' = calls + 1
    /\ pc' = "rotated"
    /\ UNCHANGED <<a, b, vec, container, window_count, axis, initial,
                   rotation, flipped, layout, modifiers>>

NextRotate == CallRotate

SpecRotate == InitRotate /\ [][NextRotate]_vars

\* C7: if the array has no gaps and no overlaps inside its bounding
\* rectangle, then after rotate (North, East, South or West, gap-fill pass
\* included) it still has no gaps and no overlaps inside that rectangle.
C7_RotateKeepsTiling ==
    (pc = "rotated" /\ calls = 1 /\ tiles(initial, outer_rect(initial))) =>
        tiles(rects, outer_rect(initial))

\* C8: rotate with Rotation::North is a no-op: every rectangle of a tiling
\* has the same x, y, w and h after the call as before it.
C8_RotateNorthNoOp ==
    (pc = "rotated" /\ calls = 1 /\ rotation = "North"
        /\ tiles(initial, outer_rect(initial))) =>
        rects = initial

\* C9: four successive rotate calls with East applied to a tiling give back
\* the original array up to the 1-pixel gap-fill corrections, and the result
\* is still a gap-free, overlap-free tiling of the same bounding rectangle.
C9_FourQuarterTurns ==
    (pc = "rotated" /\ calls = 4 /\ rotation = "East"
        /\ tiles(initial, outer_rect(initial))) =>
        /\ Len(rects) = Len(initial)
        /\ \A i \in 1..Len(rects) :
              /\ rects[i].x - initial[i].x \in {0 - 1, 0, 1}
              /\ rects[i].y - initial[i].y \in {0 - 1, 0, 1}
              /\ rects[i].w - initial[i].w \in {0 - 1, 0, 1}
              /\ rects[i].h - initial[i].h \in {0 - 1, 0, 1}
        /\ tiles(rects, outer_rect(initial))

-----------------------------------------------------------------------------
(* The caller of Layout::apply *)

\* the main sizes tried, in percent
Percentages == {50, 60}

InitLayout ==
    /\ pc = "start"
    /\ a = 0
    /\ b = 1
    /\ vec = <<>>
    /\ container \in {Rect(x, y, w, h) :
                        x \in OffsetsX, y \in OffsetsY,
                        w \in 1..MaxLayoutW, h \in 1..MaxLayoutH}
    /\ window_count \in 0..MaxLayoutN
    /\ axis = "None"
    /\ rects = <<>>
    /\ initial = <<>>
    /\ rotation = "North"
    /\ flipped = "None"
    /\ calls = 0
    /\ layout \in LayoutEnums
    /\ modifiers \in [main_window_count : 0..MaxMainCount,
                      main_size_percentage : Percentages,
                      main_split : {"Vertical", "Horizontal"},
                      first_stack_split : {"Horizontal"},
                      reserve_column_space : ReserveColumnSpaces]

CallLayoutApply ==
    /\ pc = "start"
    /\ rects' = Layout_apply(layout, window_count, container, modifiers)
    /\ pc' = "applied"
    /\ UNCHANGED <<a, b, vec, container, window_count, axis, initial,
                   rotation, flipped, calls, layout, modifiers>>

NextLayout == CallLayoutApply

SpecLayout == InitLayout /\ [][NextLayout]_vars

\* C1: for every layout, every window count N >= 0 and every container,
\* apply returns at most N rectangles, in particular when the configured
\* main window count is larger than N and when N = 0.
C1_AtMostWindowCount ==
    pc = "applied" => Len(rects) <= window_count

\* C2: for every built-in layout that does not reserve column space, every
\* N >= 1 and every container of non-zero width and height at any offset,
\* the rectangles returned by apply tile the container exactly: all inside,
\* pairwise disjoint interiors, areas summing to the container's area.
C2_FillsContainer ==
    (pc = "applied" /\ window_count >= 1
        /\ modifiers = DefaultModifiers) =>
        /\ all_inside(rects, container)
        /\ no_overlap(rects)
        /\ total_area(rects) = surface_area(container)

-----------------------------------------------------------------------------
(* A built-in layout, its main window count changed some times, applied    *)

InitApply ==
    /\ pc = "start"
    /\ a = 0
    /\ b = 1
    /\ vec = <<>>
    /\ \E x \in OffsetsX, y \in OffsetsY, w \in 1..MaxApplyW,
          h \in 1..MaxApplyH : container = Rect(x, y, w, h)
    /\ window_count \in 0..MaxApplyN
    /\ axis = "None"
    /\ rects = <<>>
    /\ initial = <<>>
    /\ rotation = "North"
    /\ flipped = "None"
    /\ calls = 0
    /\ layout \in Layouts
    /\ modifiers = DefaultModifiers

IncreaseMainWindowCount ==
    /\ pc = "start"
    /\ calls < MaxCountChanges
    /\ layout' = increase_main_window_count(layout)
    /\ calls' = calls + 1
    /\ UNCHANGED <<pc, a, b, vec, container, window_count, axis, rects,
                   initial, rotation, flipped, modifiers>>

DecreaseMainWindowCount ==
    /\ pc = "start"
    /\ calls < MaxCountChanges
    /\ layout' = decrease_main_window_count(layout)
    /\ calls' = calls + 1
    /\ UNCHANGED <<pc, a, b, vec, container, window_count, axis, rects,
                   initial, rotation, flipped, modifiers>>

CallApply ==
    /\ pc = "start"
    /\ rects' = apply(layout, window_count, container)
    /\ pc' = "applied"
    /\ UNCHANGED <<a, b, vec, container, window_count, axis, initial,
                   rotation, flipped, calls, layout, modifiers>>

NextApply ==
    \/ IncreaseMainWindowCount
    \/ DecreaseMainWindowCount
    \/ CallApply

SpecApply == InitApply /\ [][NextApply]_vars

\* every populated column of the layout has a split strategy
populated_columns_split(l, n) ==
    IF l.columns.main = <<>>
    THEN n > 0 => l.columns.stack.split # "None"
    ELSE LET main == l.columns.main[1]
             main_count == Min2(main.count, n)
             stack_count == n - main_count
             left_count ==
                 IF l.columns.second_stack = <<>> THEN stack_count
                 ELSE stack_window_counts(
                          stack_count, l.columns.stack.split # "None")[1]
         IN  /\ main_count > 0 => main.split # "None"
             /\ left_count > 0 => l.columns.stack.split # "None"

-----------------------------------------------------------------------------
(* The callers of the column composers two_column and three_column.        *)
(* `container.w as usize - main_width` overflows when the main size        *)
(* resolves to less than 0 (the cast to usize sign-extends) or to more     *)
(* than container.w: a build with overflow checks panics, a build without  *)
(* wraps around.  After a wrap-around a u32 field of 2^31 or more is       *)
(* written as its two's complement reading, a negative number.             *)

ColumnSizes ==
    {Ratio(0, 1), Ratio(1, 3), Ratio(1, 2), Ratio(3, 5), Ratio(1, 1),
     Ratio(3, 2)}
    \cup {Pixel(p) : p \in (0 - 1)..(MaxColW + 1)}

two_column_overflows(n, c, main_window_count, main_size, reserve) ==
    LET main_count == Min2(main_window_count, n)
        stack_count == saturating_sub(n, main_count)
        main_reserve == main_count > 0 \/ is_reserved(reserve)
        stack_reserve == stack_count > 0 \/ is_reserved(reserve)
    IN  /\ main_reserve
        /\ stack_reserve
        /\ \/ into_absolute(main_size, c.w) < 0
           \/ into_absolute(main_size, c.w) > c.w

three_column_overflows(n, c, main_window_count, main_size, reserve) ==
    LET main_count == Min2(main_window_count, n)
        stack_count == saturating_sub(n, main_count)
        main_reserve == main_count > 0 \/ is_reserved(reserve)
        left_reserve == stack_count > 0 \/ is_reserved(reserve)
    IN  /\ main_reserve
        /\ left_reserve
        /\ \/ into_absolute(main_size, c.w) < 0
           \/ into_absolute(main_size, c.w) > c.w

InitColumns ==
    /\ pc = "start"
    /\ a = 0
    /\ b = 1
    /\ vec = <<>>
    /\ \E x \in OffsetsX, y \in OffsetsY, w \in 0..MaxColW,
          h \in 0..MaxColH : container = Rect(x, y, w, h)
    /\ window_count \in 0..MaxColN
    /\ axis = "None"
    /\ rects = <<>>
    /\ initial = <<>>
    /\ rotation = "North"
    /\ flipped = "None"
    /\ calls = 0
    /\ \E m \in 0..MaxColMain, s \in ColumnSizes, r \in Reserves,
          bal \in BOOLEAN :
          layout = [main_window_count |-> m, main_size |-> s,
                    reserve |-> r, balance_stacks |-> bal]
    /\ modifiers = DefaultModifiers

\* two_column(window_count, &container, main_window_count, main_size,
\*            reserve_column_space)
CallTwoColumn ==
    /\ pc = "start"
    /\ layout.balance_stacks = FALSE
    /\ \/ /\ pc' = "two_column"
          /\ rects' = two_column(window_count, container,
                                 layout.main_window_count, layout.main_size,
                                 layout.reserve)
       \/ /\ two_column_overflows(window_count, container,
                                  layout.main_window_count,
                                  layout.main_size, layout.reserve)
          /\ pc' = "two_column_panicked"
          /\ rects' = <<>>
    /\ UNCHANGED <<a, b, vec, container, window_count, axis, initial,
                   rotation, flipped, calls, layout, modifiers>>

\* three_column(window_count, &container, main_window_count, main_size,
\*              reserve_column_space, balance_stacks)
CallThreeColumn ==
    /\ pc = "start"
    /\ \/ /\ pc' = "three_column"
          /\ rects' = three_column(window_count, container,
                                   layout.main_window_count,
                                   layout.main_size, layout.reserve,
                                   layout.balance_stacks)
       \/ /\ three_column_overflows(window_count, container,
                                    layout.main_window_count,
                                    layout.main_size, layout.reserve)
          /\ pc' = "three_column_panicked"
          /\ rects' = <<>>
    /\ UNCHANGED <<a, b, vec, container, window_count, axis, initial,
                   rotation, flipped, calls, layout, modifiers>>

NextColumns ==
    \/ CallTwoColumn
    \/ CallThreeColumn

SpecColumns == InitColumns /\ [][NextColumns]_vars

\* the main size resolves to a width inside the container
size_fits(size, c) ==
    /\ into_absolute(size, c.w) >= 0
    /\ into_absolute(size, c.w) <= c.w


\* the widths <<main_width, stack_width>> that two_column computes
two_column_widths(n, c, main_window_count, main_size, reserve) ==
    LET main_count == Min2(main_window_count, n)
        stack_count == saturating_sub(n, main_count)
        main_reserve == main_count > 0 \/ is_reserved(reserve)
        stack_reserve == stack_count > 0 \/ is_reserved(reserve)
        main_width == IF main_reserve /\ stack_reserve
                      THEN into_absolute(main_size, c.w)
                      ELSE IF main_reserve THEN c.w ELSE 0
    IN  <<main_width, c.w - main_width>>

\* the columns <<main, stack>> that have windows
two_column_has_windows(n, main_window_count) ==
    <<Min2(main_window_count, n) > 0,
      saturating_sub(n, Min2(main_window_count, n)) > 0>>

\* C12: in the two-column composer with no centering shift, the main
\* column is placed at x = C.x and the stack column at x = C.x + main_w,
\* for every container offset C.x.
C12_TwoColumnOffsets ==
    LET has == two_column_has_windows(window_count,
                                      layout.main_window_count)
        widths == two_column_widths(window_count, container,
                                    layout.main_window_count,
                                    layout.main_size, layout.reserve)
    IN  (/\ pc = "two_column"
         /\ size_fits(layout.main_size, container)
         /\ (layout.reserve = "ReserveAndCenter" => has[1] /\ has[2]))
        => /\ rects[1] # <<>> => rects[1][1].x = container.x
           /\ rects[2] # <<>> => rects[2][1].x = container.x + widths[1]


\* the columns <<main, stack>> that are reserved
two_column_reserved(n, main_window_count, reserve) ==
    <<two_column_has_windows(n, main_window_count)[1] \/ is_reserved(reserve),
      two_column_has_windows(n, main_window_count)[2] \/ is_reserved(reserve)>>

contiguous(columns) ==
    \A i \in 1..(Len(columns) - 1) :
        columns[i + 1].x = columns[i].x + columns[i].w

\* the free width left and right of the emitted columns differs by <= 1
centered(columns, c) ==
    LET left_free == columns[1].x - c.x
        right_free == (c.x + c.w) - (columns[Len(columns)].x
                                       + columns[Len(columns)].w)
    IN  /\ left_free - right_free <= 1
        /\ right_free - left_free <= 1

\* C14: under ReserveAndCenter, for a container at x = 0, any N >= 1 and
\* a main size that resolves to a width in 0..C.w, the columns emitted by
\* the two-column and the three-column composer are contiguous and
\* centered as a group.
C14_CenteredAsGroup ==
    (/\ pc \in {"two_column", "three_column"}
     /\ layout.reserve = "ReserveAndCenter"
     /\ container.x = 0
     /\ window_count >= 1
     /\ size_fits(layout.main_size, container))
    => /\ Flatten(rects) # <<>>
       /\ contiguous(Flatten(rects))
       /\ centered(Flatten(rects), container)

\* main and left stack populated, the right stack reserved but empty
C14_Witness ==
    /\ pc = "three_column"
    /\ layout.reserve = "ReserveAndCenter"
    /\ layout.main_window_count = 1
    /\ layout.main_size = Ratio(1, 2)
    /\ window_count = 2
    /\ container = Rect(0, 0, 6, 1)
    /\ rects = <<<<Rect(1, 0, 1, 1)>>, <<Rect(2, 0, 3, 1)>>, <<>>>>



\* <<main_reserve, left_stack_reserve, right_stack_reserve>>
three_column_reserved(n, main_window_count, reserve, balance_stacks) ==
    LET main_count == Min2(main_window_count, n)
        counts == stack_window_counts(saturating_sub(n, main_count),
                                      balance_stacks)
        left_reserve == counts[1] > 0 \/ is_reserved(reserve)
    IN  <<main_count > 0 \/ is_reserved(reserve),
          left_reserve,
          (left_reserve /\ counts[2] > 0) \/ is_reserved(reserve)>>

\* main_width, given <<main_reserve, left_stack_reserve, ...>>
three_column_main_width(c, main_size, reserved) ==
    IF reserved[1] /\ reserved[2] THEN into_absolute(main_size, c.w)
    ELSE IF reserved[1] THEN c.w ELSE 0

\* C16: in the three-column composer, when both stacks are reserved the
\* remaining width stack_total = C.w - main_w is split so that the left
\* stack gets the first (larger-or-equal) value of the remainder-preserving
\* division of stack_total by 2 and the right stack gets the rest, so
\* left_w >= right_w and left_w + right_w = stack_total; when only the
\* left stack is reserved it gets all of stack_total.
C16_StackWidths ==
    (pc = "three_column" /\ size_fits(layout.main_size, container))
    => \A reserved \in {three_column_reserved(
                            window_count, layout.main_window_count,
                            layout.reserve, layout.balance_stacks)} :
       \A stack_total \in {container.w - three_column_main_width(
                               container, layout.main_size, reserved)} :
          /\ (reserved[2] /\ reserved[3] /\ rects[1] # <<>>)
                => rects[1][1].w = remainderless_division(stack_total, 2)[1]
          /\ (reserved[2] /\ reserved[3] /\ rects[3] # <<>>)
                => rects[3][1].w = remainderless_division(stack_total, 2)[2]
          /\ (reserved[2] /\ reserved[3] /\ rects[1] # <<>>
                 /\ rects[3] # <<>>)
                => /\ rects[1][1].w >= rects[3][1].w
                   /\ rects[1][1].w + rects[3][1].w = stack_total
          /\ (reserved[2] /\ ~reserved[3] /\ rects[1] # <<>>)
                => rects[1][1].w = stack_total


\* C17: the column composers return a rectangle for a column if and only
\* if that column has at least one window assigned, for every reserve
\* policy; in the three-column composer a right-stack rectangle is never
\* returned without a left-stack rectangle, and with N = 0 all outputs are
\* absent.
C17_RectIffWindows ==
    LET main_count == Min2(layout.main_window_count, window_count)
        stack_count == window_count - main_count
    IN  /\ pc = "two_column" =>
              /\ rects[1] # <<>> <=> main_count > 0
              /\ rects[2] # <<>> <=> stack_count > 0
        /\ pc = "three_column" =>
              /\ rects[2] # <<>> <=> main_count > 0
              /\ rects[1] # <<>> <=> stack_count >= 1
              /\ rects[3] # <<>> <=> stack_count >= 2
              /\ rects[3] # <<>> => rects[1] # <<>>
        /\ (pc \in {"two_column", "three_column"} /\ window_count = 0)
              => Flatten(rects) = <<>>

\* the right stack is reserved but has no window: no rectangle for it
C17_Witness ==
    /\ pc = "three_column"
    /\ layout.reserve = "Reserve"
    /\ layout.main_window_count = 1
    /\ layout.main_size = Ratio(1, 2)
    /\ window_count = 2
    /\ container = Rect(0, 0, 6, 1)
    /\ rects = <<<<Rect(0, 0, 1, 1)>>, <<Rect(1, 0, 3, 1)>>, <<>>>>


\* C20: the column composers are total: they return normally, with
\* rectangles of non-negative width whose widths sum to at most C.w, for
\* every input, including a main size that resolves to more than the
\* container width, a negative Pixel size, and a container of zero width
\* or height.  (A width written as a negative number is a u32 of 2^31 or
\* more, left by a wrap-around.)
C20_ComposersTotal ==
    pc # "start"
    => /\ pc \in {"two_column", "three_column"}
       /\ \A i \in 1..Len(Flatten(rects)) : Flatten(rects)[i].w >= 0
       /\ SumSeq([i \in 1..Len(Flatten(rects)) |-> Flatten(rects)[i].w])
             <= container.w

-----------------------------------------------------------------------------
(* The caller of stack_main_stack.  With 0 stack windows and unbalanced    *)
(* stacks `stack_window_count - 1` overflows: a build with overflow checks *)
(* panics; a build without them goes on with usize::MAX windows for the    *)
(* right stack, and splitting a right column along an axis then asks for   *)
(* a vector of usize::MAX lengths, which aborts.                           *)

InitStackMainStack ==
    /\ pc = "start"
    /\ a = 0
    /\ b = 1
    /\ vec = <<>>
    /\ \E x \in OffsetsX, y \in OffsetsY, w \in 1..MaxStacksW,
          h \in 1..MaxStacksH : container = Rect(x, y, w, h)
    /\ window_count \in 0..MaxStacksN
    /\ axis = "None"
    /\ rects = <<>>
    /\ initial = <<>>
    /\ rotation = "North"
    /\ flipped = "None"
    /\ calls = 0
    /\ layout = "none"
    /\ \E m \in 0..MaxStacksMain, bal \in BOOLEAN, p \in Percentages,
          res \in BOOLEAN, sp \in {"Horizontal", "None"} :
          modifiers = [main_window_count |-> m,
                       main_size_percentage |-> p,
                       main_split |-> "Vertical",
                       first_stack_split |-> "Horizontal",
                       second_stack_split |-> sp,
                       reserve_empty_space |-> res,
                       balance_stacks |-> bal]

\* the right column that stack_main_stack would split
right_column_of(n, c, mods) ==
    stack_main_stack_columns(n, c, mods.main_window_count,
                             mods.main_size_percentage,
                             mods.reserve_empty_space)[3]

\* stack_main_stack(window_count, container, &modifiers)
CallStackMainStack ==
    /\ pc = "start"
    /\ \/ /\ ~stack_main_stack_overflows(window_count,
                                         modifiers.main_window_count,
                                         modifiers.balance_stacks)
          /\ pc' = "stack_main_stack"
          /\ rects' = stack_main_stack(window_count, container, modifiers)
          /\ vec' = IF window_count = 0 THEN <<>>
                    ELSE stack_main_stack_counts(
                             window_count, modifiers.main_window_count,
                             modifiers.balance_stacks)
       \/ /\ stack_main_stack_overflows(window_count,
                                        modifiers.main_window_count,
                                        modifiers.balance_stacks)
          /\ pc' = "stack_main_stack_panicked"
          /\ rects' = <<>>
          /\ vec' = <<>>
       \/ /\ stack_main_stack_overflows(window_count,
                                        modifiers.main_window_count,
                                        modifiers.balance_stacks)
          /\ \/ right_column_of(window_count, container, modifiers) = <<>>
             \/ modifiers.second_stack_split = "None"
          /\ pc' = "stack_main_stack"
          /\ rects' = stack_main_stack(window_count, container, modifiers)
          /\ vec' = stack_main_stack_counts(
                        window_count, modifiers.main_window_count,
                        modifiers.balance_stacks)
       \/ /\ stack_main_stack_overflows(window_count,
                                        modifiers.main_window_count,
                                        modifiers.balance_stacks)
          /\ right_column_of(window_count, container, modifiers) # <<>>
          /\ modifiers.second_stack_split # "None"
          /\ pc' = "stack_main_stack_aborted"
          /\ rects' = <<>>
          /\ vec' = stack_main_stack_counts(
                        window_count, modifiers.main_window_count,
                        modifiers.balance_stacks)
    /\ UNCHANGED <<a, b, container, window_count, axis, initial, rotation,
                   flipped, calls, layout, modifiers>>

NextStackMainStack == CallStackMainStack

SpecStackMainStack == InitStackMainStack /\ [][NextStackMainStack]_vars

\* C15: the three-column composer distributes the s = N - min(N, M) stack
\* windows into (l, r) with l + r = s: when balance_stacks is true, l and
\* r are the two values of the remainder-preserving division of s by 2
\* (so l >= r and l - r <= 1); when false, l = min(1, s) and r = s - l,
\* for every s >= 0 including s = 0.
C15_StackDistribution ==
    LET s == saturating_sub(window_count,
                            Min2(modifiers.main_window_count, window_count))
        l == IF modifiers.balance_stacks
             THEN remainderless_division(s, 2)[1] ELSE Min2(1, s)
    IN  (pc # "start" /\ window_count > 0)
        => /\ pc = "stack_main_stack"
           /\ vec = <<l, s - l>>
           /\ modifiers.balance_stacks => (l >= s - l /\ l - (s - l) <= 1)


-----------------------------------------------------------------------------
(* The caller of Direction::find_neighbor: the array is a tiling of the    *)
(* container in some order, a is 1 + the index `current` (one past the     *)
(* end included), rotation is the direction, vec the returned Option.      *)

\* the bijections on 1..n
Bijections(n) ==
    {p \in [1..n -> 1..n] : \A i, j \in 1..n : p[i] = p[j] => i = j}

Permuted(s, p) == [i \in 1..Len(s) |-> s[p[i]]]

Perms(s) == {Permuted(s, p) : p \in Bijections(Len(s))}

\* tilings that layouts produce: one split, or a split of one half
NeighborTilings(c) ==
    {split(c, n, ax) : n \in 1..MaxNeighborN,
                       ax \in {"Vertical", "Horizontal", "Fibonacci"}}
    \cup {split(split(c, 2, ax)[1], 2, bx) \o <<split(c, 2, ax)[2]>> :
            ax \in {"Vertical", "Horizontal"},
            bx \in {"Vertical", "Horizontal"}}
    \cup {<<split(c, 2, ax)[1]>> \o split(split(c, 2, ax)[2], 2, bx) :
            ax \in {"Vertical", "Horizontal"},
            bx \in {"Vertical", "Horizontal"}}

InitNeighbor ==
    /\ pc = "start"
    /\ \E x \in OffsetsX, y \in OffsetsY, w \in 2..MaxNeighborW,
          h \in 2..MaxNeighborH : container = Rect(x, y, w, h)
    /\ rects \in UNION {Perms(t) : t \in NeighborTilings(container)}
    /\ a \in 1..(Len(rects) + 1)
    /\ b = 1
    /\ vec = <<>>
    /\ window_count = Len(rects)
    /\ axis = "None"
    /\ initial = rects
    /\ rotation \in Directions
    /\ flipped = "None"
    /\ calls = 0
    /\ layout = "none"
    /\ modifiers = "none"

\* Direction::find_neighbor(&rects, current, direction, &container)
CallFindNeighbor ==
    /\ pc = "start"
    /\ vec' = find_neighbor(rects, a, rotation, container)
    /\ pc' = "found"
    /\ UNCHANGED <<a, b, container, window_count, axis, rects, initial,
                   rotation, flipped, calls, layout, modifiers>>

NextNeighbor == CallFindNeighbor

SpecNeighbor == InitNeighbor /\ [][NextNeighbor]_vars

\* the eligibility predicates as the specification words them
eligible(r, cur, d) ==
    IF d = "North"
    THEN /\ right_edge(r) >= left_edge(cur)
         /\ left_edge(r) <= right_edge(cur)
         /\ top_edge(r) < bottom_edge(cur)
    ELSE /\ right_edge(r) > right_edge(cur)
         /\ bottom_edge(r) > top_edge(cur)
         /\ top_edge(r) < bottom_edge(cur)

\* C18: find_neighbor(rects, i, d, C) returns None if and only if no
\* rectangle other than rects[i] satisfies the eligibility predicate for
\* direction d, and when it returns Some(j) then rects[j] satisfies that
\* predicate (North and East, whose predicates are given).
C18_NoneIffNoEligible ==
    (pc = "found" /\ a <= Len(rects) /\ rotation \in {"North", "East"})
    => /\ vec = <<>> <=>
             ~\E j \in 1..Len(rects) :
                 j # a /\ eligible(rects[j], rects[a], rotation)
       /\ vec # <<>> => eligible(rects[vec[1]], rects[a], rotation)

\* C19: among the candidates of the search, find_neighbor returns the
\* nearest one: for North/South the one with the smallest y-distance, ties
\* broken by picking the leftmost; for East/West the one with the smallest
\* x-distance, ties broken by picking the topmost.
C19_NearestCandidate ==
    (pc = "found" /\ vec # <<>>)
    => \A j \in 1..Len(rects) :
          ~skipped(rects[j], rects[a], rotation)
          => IF rotation \in {"North", "South"}
             THEN /\ y_distance_to(rects[vec[1]], rects[a], rotation)
                        <= y_distance_to(rects[j], rects[a], rotation)
                  /\ y_distance_to(rects[vec[1]], rects[a], rotation)
                        = y_distance_to(rects[j], rects[a], rotation)
                     => rects[vec[1]].x <= rects[j].x
             ELSE /\ x_distance_to(rects[vec[1]], rects[a], rotation)
                        <= x_distance_to(rects[j], rects[a], rotation)
                  /\ x_distance_to(rects[vec[1]], rects[a], rotation)
                        = x_distance_to(rects[j], rects[a], rotation)
                     => rects[vec[1]].y <= rects[j].y


\* the array shifted by (dx, dy)
shifted(rs, dx, dy) ==
    [i \in 1..Len(rs) |-> Rect(rs[i].x + dx, rs[i].y + dy, rs[i].w, rs[i].h)]

\* C30: find_neighbor is translation invariant: shifting every rectangle
\* and the container by the same (dx, dy) does not change the returned
\* index; the result in a container at an offset is the result for the
\* same tiling in the container at the origin.
C30_TranslationInvariant ==
    pc = "found" =>
        vec = find_neighbor(
                  shifted(rects, 0 - container.x, 0 - container.y), a,
                  rotation, Rect(0, 0, container.w, container.h))

-----------------------------------------------------------------------------
(* The mutators of a layout definition (layout.rs 142-268), called in any  *)
(* order by a caller that passes one upper bound.  `initial` is the        *)
(* definition before the last call, `a` the delta of the last call, `b`    *)
(* the caller's upper bound and `pc` the last call.  An `px + delta` that  *)
(* leaves the i32 range panics in a build with overflow checks and wraps   *)
(* around in a build without them.                                         *)

MaxUpperBound == 120

MaxSizeChanges == 2

MaxSetCount == 2

UpperBounds == {0 - 1, 0, MaxUpperBound, I32Max}

Deltas == {0 - I32Max - 1, 0 - 50, 0 - 5, 0, 5, 50, I32Max}

MainSizes ==
    {Pixel(0 - I32Max - 1), Pixel(0 - 10), Pixel(0), Pixel(70),
     Pixel(MaxUpperBound + 10), Pixel(I32Max),
     Ratio(0, 1), Ratio(1, 2), Ratio(1, 1), Ratio(3, 2)}

InitMutators ==
    /\ pc = "start"
    /\ a = 0
    /\ b \in UpperBounds
    /\ vec = <<>>
    /\ container = Rect(0, 0, 1, 1)
    /\ window_count = 0
    /\ axis = "None"
    /\ rects = <<>>
    /\ layout \in Layouts
    /\ initial = layout
    /\ rotation = "North"
    /\ flipped = "None"
    /\ calls = 0
    /\ modifiers = DefaultModifiers

CallSetMainSize ==
    /\ pc # "panicked"
    /\ calls < MaxSizeChanges
    /\ \E size \in MainSizes : layout' = set_main_size(layout, size)
    /\ initial' = layout
    /\ pc' = "set_main_size"
    /\ calls' = calls + 1
    /\ UNCHANGED <<a, b, vec, container, window_count, axis, rects,
                   rotation, flipped, modifiers>>

CallChangeMainSize ==
    /\ pc # "panicked"
    /\ calls < MaxSizeChanges
    /\ \E delta \in Deltas :
          /\ a' = delta
          /\ \/ /\ layout' = change_main_size(layout, delta, b)
                /\ pc' = "change_main_size"
             \/ /\ change_main_size_overflows(layout, delta)
                /\ layout' = layout
                /\ pc' = "panicked"
    /\ initial' = layout
    /\ calls' = calls + 1
    /\ UNCHANGED <<b, vec, container, window_count, axis, rects,
                   rotation, flipped, modifiers>>

CallIncreaseMainSize ==
    /\ pc # "panicked"
    /\ calls < MaxSizeChanges
    /\ a' = increase_delta(layout)
    /\ \/ /\ layout' = increase_main_size(layout, b)
          /\ pc' = "increase_main_size"
       \/ /\ change_main_size_overflows(layout, increase_delta(layout))
          /\ layout' = layout
          /\ pc' = "panicked"
    /\ initial' = layout
    /\ calls' = calls + 1
    /\ UNCHANGED <<b, vec, container, window_count, axis, rects,
                   rotation, flipped, modifiers>>

CallDecreaseMainSize ==
    /\ pc # "panicked"
    /\ calls < MaxSizeChanges
    /\ a' = 0 - increase_delta(layout)
    /\ \/ /\ layout' = decrease_main_size(layout)
          /\ pc' = "decrease_main_size"
       \/ /\ change_main_size_overflows(layout, 0 - increase_delta(layout))
          /\ layout' = layout
          /\ pc' = "panicked"
    /\ initial' = layout
    /\ calls' = calls + 1
    /\ UNCHANGED <<b, vec, container, window_count, axis, rects,
                   rotation, flipped, modifiers>>

CallSetMainWindowCount ==
    /\ pc # "panicked"
    /\ calls < MaxSizeChanges
    /\ \E count \in 0..MaxSetCount :
          layout' = set_main_window_count(layout, count)
    /\ initial' = layout
    /\ pc' = "set_main_window_count"
    /\ calls' = calls + 1
    /\ UNCHANGED <<a, b, vec, container, window_count, axis, rects,
                   rotation, flipped, modifiers>>

CallIncreaseMainWindowCount ==
    /\ pc # "panicked"
    /\ calls < MaxSizeChanges
    /\ layout' = increase_main_window_count(layout)
    /\ initial' = layout
    /\ pc' = "increase_main_window_count"
    /\ calls' = calls + 1
    /\ UNCHANGED <<a, b, vec, container, window_count, axis, rects,
                   rotation, flipped, modifiers>>

CallDecreaseMainWindowCount ==
    /\ pc # "panicked"
    /\ calls < MaxSizeChanges
    /\ layout' = decrease_main_window_count(layout)
    /\ initial' = layout
    /\ pc' = "decrease_main_window_count"
    /\ calls' = calls + 1
    /\ UNCHANGED <<a, b, vec, container, window_count, axis, rects,
                   rotation, flipped, modifiers>>

NextMutators ==
    \/ CallSetMainSize
    \/ CallChangeMainSize
    \/ CallIncreaseMainSize
    \/ CallDecreaseMainSize
    \/ CallSetMainWindowCount
    \/ CallIncreaseMainWindowCount
    \/ CallDecreaseMainWindowCount

SpecMutators == InitMutators /\ [][NextMutators]_vars

\* the size lies in [0, upper_bound] (Pixel) or in [0.0, 1.0] (Ratio)
size_in_range(size, upper_bound) ==
    IF size.kind = "Pixel" THEN 0 <= size.num /\ size.num <= upper_bound
    ELSE ~f32_less(f32_one, ratio_of(size))

SizeCalls == {"change_main_size", "increase_main_size", "decrease_main_size"}

CountCalls ==
    {"set_main_window_count", "increase_main_window_count",
     "decrease_main_window_count"}

\* C21: change_main_size(delta, upper_bound) returns for every delta and
\* every upper_bound, and leaves a Pixel size in [0, upper_bound], equal to
\* the old value plus delta when that lies in the range, and a Ratio size in
\* [0.0, 1.0], moved in the direction of delta; a size inside the range
\* stays inside it under change_main_size, increase_main_size and
\* decrease_main_size.
C21_MainSizeInRange ==
    /\ pc # "panicked"
    /\ (pc \in SizeCalls /\ layout.columns.main # <<>>) =>
         LET old == initial.columns.main[1].size
             new == layout.columns.main[1].size
         IN  /\ pc = "change_main_size" => size_in_range(new, b)
             /\ size_in_range(old, b) => size_in_range(new, b)
             /\ (/\ pc = "change_main_size"
                 /\ old.kind = "Pixel"
                 /\ ~i32_add_overflows(old.num, a)
                 /\ 0 <= old.num + a
                 /\ old.num + a <= b) => new = Pixel(old.num + a)
             /\ (old.kind # "Pixel" /\ size_in_range(old, b)) =>
                   /\ a >= 0 => ~f32_less(ratio_of(new), ratio_of(old))
                   /\ a <= 0 => ~f32_less(ratio_of(old), ratio_of(new))


\* C25: on a layout definition without a main column every mutator leaves
\* the whole definition unchanged; on a layout with a main column the size
\* mutators change nothing but the main size and the count mutators
\* nothing but the main window count.
C25_MutatorsFrame ==
    pc \in SizeCalls \union CountCalls \union {"set_main_size", "panicked"} =>
        IF initial.columns.main = <<>> THEN layout = initial
        ELSE /\ layout.columns.main # <<>>
             /\ pc \in SizeCalls \union {"set_main_size"} =>
                   layout = set_main_size(initial,
                                          layout.columns.main[1].size)
             /\ pc \in CountCalls =>
                   layout = [initial EXCEPT !.columns.main[1].count =
                                 layout.columns.main[1].count]
             /\ pc = "panicked" => layout = initial

\* set_main_size was called on a layout without a main column
C25_Witness ==
    /\ pc = "set_main_size"
    /\ initial.columns.main = <<>>
    /\ calls = 1

-----------------------------------------------------------------------------
(* The registry Layouts (layout.rs 19-71): `vec` is its list `layouts`,    *)
(* `initial` the list it was constructed with, `axis` the name looked up   *)
(* last and `rects` the value returned last.  The list is a public field:  *)
(* a caller constructs it empty or by Layouts::default() and pushes its    *)
(* own layouts, whatever their names (as update_defaults does).            *)

MaxCustom == 2

CustomLayouts ==
    {[monocle EXCEPT !.flip = "Horizontal"],
     [DefaultLayout EXCEPT !.name = "Custom"],
     [DefaultLayout EXCEPT !.name = "Custom", !.rotate = "East"]}

LookupNames == {"Monocle", "Custom", "CenterMainFluid", "Missing"}

InitRegistry ==
    /\ pc = "start"
    /\ a = 0
    /\ b = 1
    /\ vec \in {<<>>, Layouts_default}
    /\ container = Rect(0, 0, 1, 1)
    /\ window_count = 0
    /\ axis = "None"
    /\ rects = <<>>
    /\ initial = vec
    /\ rotation = "North"
    /\ flipped = "None"
    /\ calls = 0
    /\ layout = DefaultLayout
    /\ modifiers = DefaultModifiers

PushLayout ==
    /\ calls < MaxCustom
    /\ \E custom \in CustomLayouts : vec' = Append(vec, custom)
    /\ calls' = calls + 1
    /\ pc' = "pushed"
    /\ UNCHANGED <<a, b, container, window_count, axis, rects, initial,
                   rotation, flipped, layout, modifiers>>

CallGet ==
    /\ \E name \in LookupNames :
          /\ axis' = name
          /\ rects' = get(vec, name)
    /\ pc' = "get"
    /\ UNCHANGED <<a, b, vec, container, window_count, initial, rotation,
                   flipped, calls, layout, modifiers>>

CallGetIndex ==
    /\ \E name \in LookupNames :
          /\ axis' = name
          /\ rects' = get_index(vec, name)
    /\ pc' = "get_index"
    /\ UNCHANGED <<a, b, vec, container, window_count, initial, rotation,
                   flipped, calls, layout, modifiers>>

CallNames ==
    /\ axis' = "None"
    /\ rects' = names(vec)
    /\ pc' = "names"
    /\ UNCHANGED <<a, b, vec, container, window_count, initial, rotation,
                   flipped, calls, layout, modifiers>>

NextRegistry ==
    \/ PushLayout
    \/ CallGet
    \/ CallGetIndex
    \/ CallNames

SpecRegistry == InitRegistry /\ [][NextRegistry]_vars

\* the positions (from 1) of the layouts of that name
named(layouts, name) == {i \in 1..Len(layouts) : layouts[i].name = name}

\* C22: get(name) returns the first layout in list order whose name is
\* name, get_index(name) the index of that same layout, and both return
\* None exactly when no layout of the list has that name.
C22_FirstMatch ==
    /\ pc = "get" =>
          IF named(vec, axis) = {} THEN rects = <<>>
          ELSE \E i \in named(vec, axis) :
                  /\ \A j \in named(vec, axis) : i <= j
                  /\ rects = <<vec[i]>>
                  /\ get_index(vec, axis) = <<i - 1>>
    /\ pc = "get_index" =>
          IF named(vec, axis) = {} THEN rects = <<>>
          ELSE \E i \in named(vec, axis) :
                  /\ \A j \in named(vec, axis) : i <= j
                  /\ rects = <<i - 1>>
                  /\ get(vec, axis) = <<vec[i]>>

\* a lookup in a list that holds two different layouts of that name
C22_Witness ==
    /\ pc = "get"
    /\ \E i, j \in named(vec, axis) : vec[i] # vec[j]
    /\ rects # <<>>

\* the table of built-in layouts: name, columns, stack split (and second
\* stack split), reserve policy
BuiltInTable ==
    {<<"EvenHorizontal", "stack only", "Vertical", "None">>,
     <<"EvenVertical", "stack only", "Horizontal", "None">>,
     <<"Monocle", "stack only", "None", "None">>,
     <<"Grid", "stack only", "Grid", "None">>,
     <<"MainAndVertStack", "main + stack", "Horizontal", "None">>,
     <<"MainAndHorizontalStack", "main + stack", "Vertical", "None">>,
     <<"RightMainAndVertStack", "main + stack", "Horizontal", "None">>,
     <<"Fibonacci", "main + stack", "Fibonacci", "None">>,
     <<"Dwindle", "main + stack", "Dwindle", "None">>,
     <<"MainAndDeck", "main + stack", "None", "None">>,
     <<"CenterMain", "3-column", "None", "None">>,
     <<"CenterMainBalanced", "3-column", "Dwindle", "None">>,
     <<"CenterMainFluid", "3-column", "None", "Reserve">>}

\* the kind of columns of a layout definition
columns_of(l) ==
    IF l.columns.main = <<>> THEN "stack only"
    ELSE IF l.columns.second_stack = <<>> THEN "main + stack"
    ELSE "3-column"

table_row(l) == <<l.name, columns_of(l), l.columns.stack.split, l.reserve>>

\* the further entries of the rows: both splits of MainAndDeck are absent
\* and the second stack of CenterMainBalanced is split by Dwindle
table_notes(l) ==
    /\ l.name = "MainAndDeck" => l.columns.main[1].split = "None"
    /\ l.name = "CenterMainBalanced" =>
          l.columns.second_stack[1].split = "Dwindle"

matches_table(layouts) ==
    /\ Len(layouts) = 13
    /\ \A i, j \in 1..Len(layouts) :
          layouts[i].name = layouts[j].name => i = j
    /\ {table_row(layouts[i]) : i \in 1..Len(layouts)} = BuiltInTable
    /\ \A i \in 1..Len(layouts) : table_notes(layouts[i])

\* C23, as stated: the default registry holds exactly the 13 built-in
\* layouts of the table, with distinct names, each as its row says, and
\* the global rotation of RightMainAndVertStack is South.
C23_DefaultsMatchTable ==
    (calls = 0 /\ initial # <<>>) =>
        /\ matches_table(vec)
        /\ \A i \in 1..Len(vec) :
              vec[i].name = "RightMainAndVertStack" =>
                  vec[i].rotate = "South"

\* C23, amended: the default registry holds exactly the 13 built-in
\* layouts of the table, with distinct names, each as its row says;
\* RightMainAndVertStack rotates its columns by South and its global
\* rotation is North, as that of every built-in layout.
C23_DefaultsMatchTableColumnsRotated ==
    (calls = 0 /\ initial # <<>>) =>
        /\ matches_table(vec)
        /\ \A i \in 1..Len(vec) :
              /\ vec[i].rotate = "North"
              /\ vec[i].columns.rotate =
                    IF vec[i].name = "RightMainAndVertStack"
                    THEN "South" ELSE "North"

\* names() of the default registry lists RightMainAndVertStack
C23_Witness ==
    /\ pc = "names"
    /\ calls = 0
    /\ Len(rects) = 13
    /\ rects[7] = "RightMainAndVertStack"

-----------------------------------------------------------------------------
(* apply(layout, window_count, options, modifiers) of lib.rs: `container`, *)
(* `rotation` and `flipped` are the LayoutOptions.  The containers are     *)
(* those whose aspect ratio the rotation keeps.                            *)

MaxOptionsW == 4

MaxOptionsH == 4

MaxOptionsN == 3

InitOptions ==
    /\ pc = "start"
    /\ a = 0
    /\ b = 1
    /\ vec = <<>>
    /\ rotation \in Rotations
    /\ flipped \in Flips
    /\ container \in {Rect(x, y, w, h) :
                        x \in OffsetsX, y \in OffsetsY,
                        w \in 1..MaxOptionsW, h \in 1..MaxOptionsH}
    /\ ~aspect_ratio_changes(rotation, container)
    /\ window_count \in 0..MaxOptionsN
    /\ axis = "None"
    /\ rects = <<>>
    /\ initial = <<>>
    /\ calls = 0
    /\ layout \in LayoutEnums
    /\ modifiers = DefaultModifiers

LayoutOptions ==
    [container_size |-> container, flipped |-> flipped,
     rotation |-> rotation]

CallApplyWithOptions ==
    /\ pc = "start"
    /\ rects' = apply_with_options(layout, window_count, LayoutOptions,
                                   modifiers)
    /\ pc' = "applied"
    /\ UNCHANGED <<a, b, vec, container, window_count, axis, initial,
                   rotation, flipped, calls, layout, modifiers>>

NextOptions == CallApplyWithOptions

SpecOptions == InitOptions /\ [][NextOptions]_vars

\* C24: apply flips the whole result within the container first and
\* rotates it afterwards: the returned array is rotate(flip(tiles)).
C24_FlipThenRotate ==
    pc = "applied" =>
        rects = flip_then_rotate(
                    rotated_container(LayoutOptions),
                    Layout_apply(layout, window_count,
                                 rotated_container(LayoutOptions), modifiers),
                    LayoutOptions)

-----------------------------------------------------------------------------
(* The callers of main_stack and stack_main_stack, with modifiers that     *)
(* hold the fields both of them read.                                      *)

InitColumnOrder ==
    /\ pc = "start"
    /\ a = 0
    /\ b = 1
    /\ vec = <<>>
    /\ \E x \in OffsetsX, y \in OffsetsY, w \in 1..MaxStacksW,
          h \in 1..MaxStacksH : container = Rect(x, y, w, h)
    /\ window_count \in 0..MaxStacksN
    /\ axis = "None"
    /\ rects = <<>>
    /\ initial = <<>>
    /\ rotation = "North"
    /\ flipped = "None"
    /\ calls = 0
    /\ layout = "none"
    /\ \E m \in 0..MaxStacksMain, bal \in BOOLEAN, p \in Percentages,
          res \in BOOLEAN, sp \in {"Horizontal", "None"},
          col \in ReserveColumnSpaces :
          modifiers = [main_window_count |-> m,
                       main_size_percentage |-> p,
                       main_split |-> "Vertical",
                       first_stack_split |-> "Horizontal",
                       second_stack_split |-> sp,
                       reserve_column_space |-> col,
                       reserve_empty_space |-> res,
                       balance_stacks |-> bal]

\* main_stack(window_count, container, &modifiers)
CallMainStack ==
    /\ pc = "start"
    /\ rects' = main_stack(window_count, container, modifiers)
    /\ pc' = "main_stack"
    /\ UNCHANGED <<a, b, vec, container, window_count, axis, initial,
                   rotation, flipped, calls, layout, modifiers>>

NextColumnOrder ==
    \/ CallMainStack
    \/ CallStackMainStack

SpecColumnOrder == InitColumnOrder /\ [][NextColumnOrder]_vars

\* the rect lies inside the column (an Option<Rect>)
in_column(r, column) == column # <<>> /\ inside(r, column[1])

\* the array is a run of tiles of the first column, then a run of tiles of
\* the second column, then a run of tiles of the third column
ordered_by_column(rs, first, second, third) ==
    \E m, l \in 0..Len(rs) :
        /\ m + l <= Len(rs)
        /\ \A i \in 1..Len(rs) :
              IF i <= m THEN in_column(rs[i], first)
              ELSE IF i <= m + l THEN in_column(rs[i], second)
              ELSE in_column(rs[i], third)

\* the columns of main_stack in the order main, stack
main_stack_order(n, c, mods) ==
    main_stack_columns(n, c, mods.main_window_count,
                       mods.main_size_percentage, mods.reserve_column_space)

\* the columns of stack_main_stack in the order left, main, right
stack_main_stack_order(n, c, mods) ==
    stack_main_stack_columns(n, c, mods.main_window_count,
                             mods.main_size_percentage,
                             mods.reserve_empty_space)

\* C26: the rectangles returned are ordered by column: all main tiles
\* first, then all (left) stack tiles, then all second (right) stack
\* tiles, for the two-column and the three-column layout and every window
\* count.
C26_OrderedByColumn ==
    /\ pc = "main_stack" =>
          ordered_by_column(
              rects,
              main_stack_order(window_count, container, modifiers)[1],
              main_stack_order(window_count, container, modifiers)[2],
              <<>>)
    /\ pc = "stack_main_stack" =>
          ordered_by_column(
              rects,
              stack_main_stack_order(window_count, container, modifiers)[2],
              stack_main_stack_order(window_count, container, modifiers)[1],
              stack_main_stack_order(window_count, container, modifiers)[3])

\* main_stack returned one main tile followed by two stack tiles
C26_Witness ==
    /\ pc = "main_stack"
    /\ modifiers.main_window_count = 1
    /\ window_count = 3
    /\ Len(rects) = 3
    /\ rects[1].w > 0
    /\ rects[2] # rects[3]

-----------------------------------------------------------------------------
(* The caller of rotate with an array that covers a part of the container: *)
(* the tiles of one populated column of width `a`, at the left of a        *)
(* container whose other column is reserved and empty.                     *)

MaxPartW == 5

MaxPartH == 3

MaxPartN == 3

InitRotateColumn ==
    /\ pc = "start"
    /\ b = 1
    /\ vec = <<>>
    /\ container \in {Rect(x, y, w, h) :
                        x \in OffsetsX, y \in OffsetsY,
                        w \in 2..MaxPartW, h \in 1..MaxPartH}
    /\ a \in 1..(container.w - 1)
    /\ window_count \in 1..MaxPartN
    /\ axis \in PresentAxes
    /\ rects = split(Rect(container.x, container.y, a, container.h),
                     window_count, axis)
    /\ initial = rects
    /\ rotation \in Rotations
    /\ flipped = "None"
    /\ calls = 0
    /\ layout = "none"
    /\ modifiers = "none"

NextRotateColumn == CallRotate

SpecRotateColumn == InitRotateColumn /\ [][NextRotateColumn]_vars

\* the rect at the point-mirrored position inside the container
mirrored(r, c) ==
    Rect(c.x + (c.w - ((r.x - c.x) + r.w)),
         c.y + (c.h - ((r.y - c.y) + r.h)), r.w, r.h)

\* C27: rotate works relative to the container and not to the bounding
\* box of the array: rotating by South an array that covers only a part of
\* the container moves every rectangle to the point-mirrored position
\* inside the container.
C27_RotateWithinContainer ==
    (pc = "rotated" /\ calls = 1 /\ rotation = "South") =>
        \A i \in 1..Len(rects) : rects[i] = mirrored(initial[i], container)

=============================================================================
